---- MODULE Spec2Model ----
(***************************************************************************)
(* Model of the BGMI tournament bot: the MongoDB-backed store              *)
(* (src/database.py), the Telegram handlers that drive it                  *)
(* (src/handlers.py) and the notification scheduler (src/notifications.py).*)
(*                                                                         *)
(* These specifications share the variables:                               *)
(*   SpecStore  the Database methods called directly, in any order;        *)
(*   SpecEarn   get_earnings over stores drawn from a bounded set;         *)
(*   SpecFlow   the operator's guided flows, one handler call per step;    *)
(*   Spec       the handlers, each store call of a handler one step, with  *)
(*              several handler invocations in flight at once;             *)
(*   SpecConv   a fixed batch of join / confirm / decline handlers, one    *)
(*              per user, run to completion under every interleaving.      *)
(*   SpecOps    the operator's commands and winner flow, each handler one  *)
(*              step, over stores drawn from a bounded set;                *)
(*   SpecSched  the notification scheduler's cycle beside /clear, and      *)
(*   SpecSchedFair  the same with the sleep between cycles returning;      *)
(*   SpecGate   the updates of players and operator behind the admin gate; *)
(*   SpecConfirm  /confirm alone, and SpecConfirmFair with every call of   *)
(*              it for a user eventually made;                             *)
(*   SpecClock  the notification scheduler followed on a running clock     *)
(*              for a day and a minute.                                    *)
(***************************************************************************)
EXTENDS Integers, Sequences, FiniteSets, TLC

\* ------------------------------------------------------------------ bounds
NumUsers == 2
MaxTime == 2
MaxTasks == 2
MaxPayments == 2
MaxOps == 6
MaxEarn == 2                    \* tournaments in a store get_earnings reads
TicksPerDay == 2                \* clock readings sampled per calendar day
MaxStored == 2                  \* tournaments in a store the operator commands start on
TicksPerMinute == 2             \* scheduler clock readings per minute
MaxWorkTicks == 2               \* longest work of a scheduler cycle, in those ticks

UserIds == 1..NumUsers          \* Telegram user ids of the players
Times == 1..MaxTime             \* clock readings, in seconds
TournamentIds == Times          \* "tournament_<seconds>": one id per second
TaskIds == 1..MaxTasks          \* handler invocations in flight

\* handle_payment_done stores the literal "pending" as tournament_id; it is
\* never equal to a generated "tournament_<seconds>" id.
PendingTid == 0
\* completed_at / confirmed_at of a record that has no such field.
Unset == 0

VARIABLES
    now,          \* the clock (datetime.utcnow()), in seconds
    tournaments,  \* db.tournaments: tournament_id -> document
    users,        \* db.users: the user ids that have a document
    payments,     \* db.payments: the documents in insertion order
    tasks,        \* the handler invocations in flight and their locals
    session,      \* the operator's ConversationHandler state and user_data
    ops,          \* number of handler invocations started so far
    ret,          \* SpecStore: what the last Database call returned
    plan,         \* SpecConv: the handler each slot has still to start
    conv0,        \* SpecConv: the store and the plan the batch started from
    sched,        \* the notification scheduler: position, marker, errors, clock
    user_data,    \* SpecFlow: context.user_data of the operator, key -> value
    conv,         \* SpecFlow: the state of each of the three ConversationHandlers
    channel,      \* what the handler of the latest update posted to the channel
    dms,          \* the direct messages of the last handler or scheduler routine
    reply         \* the reply that handler sent the operator ("none": no reply)

FlowVars == <<user_data, conv, channel, dms, reply>>

vars == <<now, tournaments, users, payments, tasks, session, ops, ret, plan, conv0, sched, FlowVars>>

\* ------------------------------------------------------------- store: arrays
Range(s) == {s[i] : i \in DOMAIN s}

Count(s, x) == Cardinality({i \in DOMAIN s : s[i] = x})

\* Mutant of AddToSet: $push, which appends whatever the array holds.
AddToSetPush(arr, x) == Append(arr, x)

\* $addToSet: append unless the array already holds the value.
AddToSet(arr, x) == IF x \in Range(arr) THEN arr ELSE Append(arr, x)

\* $pull: remove every occurrence of the value.
Pull(arr, x) == SelectSeq(arr, LAMBDA y : y # x)

\* update_one(...).modified_count > 0: the document exists and was changed.
Modified(before, after) == after # before

\* -------------------------------------------------------- store: tournaments
\* Mutant of NewTournament: the caller's status is kept.
NewTournamentKeepsStatus(data, t) ==
    [data EXCEPT !.participants = << >>, !.confirmed_players = << >>]

\* Mutant of NewTournament: the caller's membership arrays are kept.
NewTournamentKeepsMembers(data, t) == [data EXCEPT !.status = "active"]

\* The fields create_tournament sets itself, whatever the caller passed.
NewTournament(data, t) ==
    [data EXCEPT !.status = "active",
                 !.participants = << >>,
                 !.confirmed_players = << >>]

\* Mutant of CreateOk: no unique index, every insert goes through.
CreateOkNoIndex(T, t) == TRUE

\* tournament_id is derived from the clock in whole seconds; the unique index
\* on tournament_id rejects a second insert under the same id.
CreateOk(T, t) == t \notin DOMAIN T

create_tournament(T, data, t) ==
    IF CreateOk(T, t)
    THEN [id \in DOMAIN T \cup {t} |-> IF id = t THEN NewTournament(data, t) ELSE T[id]]
    ELSE T

get_tournament(T, tid) == IF tid \in DOMAIN T THEN {T[tid]} ELSE {}

\* find({"status": "active"}): the active ids, in store order (insertion order,
\* which is id order because ids are clock readings).
ActiveIds(T) == {id \in DOMAIN T : T[id].status = "active"}

add_participant(T, tid, u) ==
    IF tid \in DOMAIN T
    THEN [T EXCEPT ![tid].participants = AddToSet(@, u)]
    ELSE T

confirm_player(T, tid, u) ==
    IF tid \in DOMAIN T
    THEN [T EXCEPT ![tid].confirmed_players = AddToSet(@, u)]
    ELSE T

decline_player(T, tid, u) ==
    IF tid \in DOMAIN T
    THEN [T EXCEPT ![tid].participants = Pull(@, u),
                   ![tid].confirmed_players = Pull(@, u)]
    ELSE T

close_tournament(T, tid, t) ==
    IF tid \in DOMAIN T
    THEN [T EXCEPT ![tid].status = "completed", ![tid].completed_at = t]
    ELSE T

\* Mutant of delete_tournament: only an active tournament is removed.
DeleteOnlyActive(T, tid) == [id \in DOMAIN T \ ({tid} \cap ActiveIds(T)) |-> T[id]]

\* delete_one({"tournament_id": tournament_id})
delete_tournament(T, tid) == [id \in DOMAIN T \ {tid} |-> T[id]]

\* ----------------------------------------------------------- store: payments
add_payment(P, data) == Append(P, [data EXCEPT !.status = "pending"])

\* update_one on {user_id, tournament_id}: the first matching document.
MatchingPayments(P, u, tid) ==
    {i \in DOMAIN P : P[i].user_id = u /\ P[i].tournament_id = tid}

FirstMatch(P, u, tid) ==
    CHOOSE i \in MatchingPayments(P, u, tid) :
        \A j \in MatchingPayments(P, u, tid) : i <= j

confirm_payment(P, u, tid, t) ==
    IF MatchingPayments(P, u, tid) # {}
    THEN [P EXCEPT ![FirstMatch(P, u, tid)].status = "confirmed",
                   ![FirstMatch(P, u, tid)].resolved_at = t]
    ELSE P

decline_payment(P, u, tid, t) ==
    IF MatchingPayments(P, u, tid) # {}
    THEN [P EXCEPT ![FirstMatch(P, u, tid)].status = "declined",
                   ![FirstMatch(P, u, tid)].resolved_at = t]
    ELSE P

\* -------------------------------------------------------------- store: users
add_user(U, u) == U \cup {u}

\* find_one({"username": username}): every user has a handle of their own.
find_user_by_username(U, handle) == IF handle \in U THEN {handle} ELSE {}

\* ================================================================ SpecStore
\* What a caller may pass to create_tournament: the three fields the store
\* sets itself may already be present in the dictionary.
CallerData ==
    [status : {"active", "completed"},
     participants : {<< >>, <<1>>},
     confirmed_players : {<< >>, <<1>>},
     completed_at : {Unset}]

NoTask == [kind |-> "idle", pc |-> "idle", user |-> 0, tid |-> 0,
           snap |-> << >>, r1 |-> FALSE, r2 |-> FALSE, reply |-> "none"]

NoSession == [state |-> "END", winner_tournament |-> 0]

NoRet == [op |-> "none", tid |-> 0, ok |-> FALSE]

NoPlan == [kind |-> "none", user |-> 0]

\* The notification scheduler before its first poll: NotificationService
\* starts with last_notification_time = None.  `clock` is the wall clock at
\* the start of the cycle, in ticks since midnight of the first day (SpecClock;
\* elsewhere the readings are inputs).  `welcomed` is not kept by the program:
\* it is the players' side, who received a welcome update in which clock hour.
NoSched ==
    [pc |-> "time_based", last_notification_time |-> "None", errors |-> FALSE,
     clock |-> 0, welcomed |-> [hour |-> "None", users |-> {}]]

\* An empty dictionary.
EmptyDict == << >>

\* ConversationHandler.END in each of the three conversations.
NoConv == [creation |-> "END", room |-> "END", winner |-> "END"]

\* What a handler posted to the channel: nothing.
NoPosts == [announcements |-> 0, results |-> 0, winners |-> << >>]

\* What a handler sent to the players and reported of it: nothing.
NoBroadcast == [attempted |-> << >>, delivered |-> << >>, success_count |-> 0, total |-> 0]

InitFlowVars ==
    /\ user_data = EmptyDict
    /\ conv = NoConv
    /\ channel = NoPosts
    /\ dms = NoBroadcast
    /\ reply = "none"

InitCommon ==
    /\ now = 1
    /\ users = {}
    /\ payments = << >>
    /\ tasks = [k \in TaskIds |-> NoTask]
    /\ session = NoSession
    /\ ops = 0
    /\ ret = NoRet
    /\ plan = [k \in TaskIds |-> NoPlan]
    /\ InitFlowVars

InitStore ==
    /\ InitCommon
    /\ tournaments = << >>
    /\ conv0 = [tournaments |-> << >>, plan |-> plan]
    /\ sched = NoSched

\* The clock advances by a second.
Tick ==
    /\ now < MaxTime
    /\ now' = now + 1
    /\ UNCHANGED <<tournaments, users, payments, tasks, session, ops, ret, plan, conv0, sched>>
    /\ UNCHANGED FlowVars

StoreFrame == UNCHANGED <<now, users, payments, tasks, session, plan, conv0, sched, FlowVars>>

\* A Database method either runs its store operation or catches the driver's
\* exception, logs it and returns its failure value (fault = TRUE).
CallCreate(data, fault) ==
    /\ ops < MaxOps
    /\ ops' = ops + 1
    /\ tournaments' = IF fault THEN tournaments ELSE create_tournament(tournaments, data, now)
    /\ ret' = [op |-> "create_tournament",
               tid |-> IF ~fault /\ CreateOk(tournaments, now) THEN now ELSE 0,
               ok |-> ~fault /\ CreateOk(tournaments, now)]
    /\ StoreFrame

CallUpdate(op, tid, after, fault) ==
    /\ ops < MaxOps
    /\ ops' = ops + 1
    /\ tournaments' = IF fault THEN tournaments ELSE after
    /\ ret' = [op |-> op, tid |-> tid, ok |-> ~fault /\ Modified(tournaments, after)]
    /\ StoreFrame

CallAddParticipant(tid, u, fault) ==
    CallUpdate("add_participant", tid, add_participant(tournaments, tid, u), fault)

CallConfirmPlayer(tid, u, fault) ==
    CallUpdate("confirm_player", tid, confirm_player(tournaments, tid, u), fault)

CallDeclinePlayer(tid, u, fault) ==
    CallUpdate("decline_player", tid, decline_player(tournaments, tid, u), fault)

CallClose(tid, fault) ==
    CallUpdate("close_tournament", tid, close_tournament(tournaments, tid, now), fault)

CallDelete(tid, fault) ==
    CallUpdate("delete_tournament", tid, delete_tournament(tournaments, tid), fault)

NextStore ==
    \/ Tick
    \/ \E data \in CallerData, fault \in BOOLEAN : CallCreate(data, fault)
    \/ \E tid \in TournamentIds, u \in UserIds, fault \in BOOLEAN :
           CallAddParticipant(tid, u, fault)
    \/ \E tid \in TournamentIds, u \in UserIds, fault \in BOOLEAN :
           CallConfirmPlayer(tid, u, fault)
    \/ \E tid \in TournamentIds, u \in UserIds, fault \in BOOLEAN :
           CallDeclinePlayer(tid, u, fault)
    \/ \E tid \in TournamentIds, fault \in BOOLEAN : CallClose(tid, fault)
    \/ \E tid \in TournamentIds, fault \in BOOLEAN : CallDelete(tid, fault)

SpecStore == InitStore /\ [][NextStore]_vars

\* ===================================================================== Spec
\* ------------------------------------------------------------ handler helpers
Min(S) == CHOOSE x \in S : \A y \in S : x <= y

\* What an awaited Database write returns: modified_count > 0, or False from
\* the except branch when the driver raised.
WriteResult(before, after, fault) == ~fault /\ Modified(before, after)

\* Mutant of FirstActive: the first stored tournament, whatever its status.
FirstStored(T) == IF DOMAIN T = {} THEN 0 ELSE Min(DOMAIN T)

\* active_tournaments[0] of the sendroom and declarewinners handlers (0: none).
FirstActive(T) == IF ActiveIds(T) = {} THEN 0 ELSE Min(ActiveIds(T))

\* Mutant of UserTournament: the first active tournament, registered or not.
UserTournamentAnyActive(T, u) == FirstActive(T)

\* The loop of the confirm and decline handlers over get_active_tournaments():
\* the first active tournament whose participants hold the user (0: none).
RegisteredIds(T, u) == {id \in ActiveIds(T) : u \in Range(T[id].participants)}

UserTournament(T, u) == IF RegisteredIds(T, u) = {} THEN 0 ELSE Min(RegisteredIds(T, u))

\* The dictionary tournament_custom_message_input hands to create_tournament
\* carries none of the fields the store sets.
HandlerData ==
    [status |-> "active", participants |-> << >>, confirmed_players |-> << >>,
     completed_at |-> Unset]

\* The document handle_payment_done inserts.
PaymentData(u) ==
    [user_id |-> u, tournament_id |-> PendingTid, amount |-> 0, status |-> "pending",
     resolved_at |-> Unset]

\* A new invocation takes the first free slot (the slots are interchangeable).
Idle(k) ==
    /\ tasks[k].kind = "idle"
    /\ \A j \in TaskIds : j < k => tasks[j].kind # "idle"

Begin(k, kind, u) == [NoTask EXCEPT !.kind = kind, !.user = u]

HandlerFrame == UNCHANGED <<now, ret, plan, conv0, sched, FlowVars>>

Init ==
    /\ InitCommon
    /\ tournaments = << >>
    /\ conv0 = [tournaments |-> << >>, plan |-> plan]
    /\ sched = NoSched

\* ----------------------------------------------------------------- /start
\* start_handler: behind the channel-membership gate, upsert the user.
StartHandler(u, member, fault) ==
    /\ ops < MaxOps
    /\ ops' = ops + 1
    /\ users' = IF member /\ ~fault THEN add_user(users, u) ELSE users
    /\ UNCHANGED <<tournaments, payments, tasks, session>>
    /\ HandlerFrame

\* ------------------------------------------- creation flow, the terminal step
\* tournament_custom_message_input: create_tournament, then the announcement.
CreateTournament(fault) ==
    /\ ops < MaxOps
    /\ ops' = ops + 1
    /\ session.state = "END"
    /\ tournaments' = IF fault THEN tournaments
                      ELSE create_tournament(tournaments, HandlerData, now)
    /\ UNCHANGED <<users, payments, tasks, session>>
    /\ HandlerFrame

\* ------------------------------------------------------------------- join
\* handle_tournament_join up to its write: read the tournament by id, stop if
\* it is missing or already lists the user.
JoinRead(k, u, tid) ==
    /\ tasks' = [tasks EXCEPT ![k] =
         IF get_tournament(tournaments, tid) = {}
         THEN [Begin(k, "join", u) EXCEPT !.tid = tid, !.pc = "done", !.reply = "not_found"]
         ELSE IF u \in Range(tournaments[tid].participants)
         THEN [Begin(k, "join", u) EXCEPT !.tid = tid, !.pc = "done",
                                          !.reply = "already_registered"]
         ELSE [Begin(k, "join", u) EXCEPT !.tid = tid, !.pc = "add_participant",
                                          !.snap = tournaments[tid].participants]]
    /\ UNCHANGED <<tournaments, users, payments, session, now, ret, conv0, sched, FlowVars>>

StartJoin(k, u, tid) ==
    /\ ops < MaxOps
    /\ ops' = ops + 1
    /\ Idle(k)
    /\ JoinRead(k, u, tid)
    /\ UNCHANGED plan

\* Mutant of JoinWrite: the array read at the start of the handler is written
\* back with the user appended (read, modify, write).
JoinWriteBack(T, tid, u, snap) ==
    IF tid \in DOMAIN T THEN [T EXCEPT ![tid].participants = Append(snap, u)] ELSE T

\* The write of the join handler: $addToSet on the stored array; the document
\* read earlier is used for the reply only.
JoinWrite(T, tid, u, snap) == add_participant(T, tid, u)

JoinAdd(k, fault) ==
    /\ tasks[k].kind = "join" /\ tasks[k].pc = "add_participant"
    /\ LET after == JoinWrite(tournaments, tasks[k].tid, tasks[k].user, tasks[k].snap)
       IN /\ tournaments' = IF fault THEN tournaments ELSE after
          /\ tasks' = [tasks EXCEPT ![k].pc = "done",
                                    ![k].reply = "payment_instructions"]
    /\ UNCHANGED <<users, payments, session, ops>>
    /\ HandlerFrame

\* ------------------------------------------------------------ payment done
PaymentDone(u, fault) ==
    /\ ops < MaxOps
    /\ ops' = ops + 1
    /\ Len(payments) < MaxPayments
    /\ payments' = IF fault THEN payments ELSE add_payment(payments, PaymentData(u))
    /\ UNCHANGED <<tournaments, users, tasks, session>>
    /\ HandlerFrame

\* ------------------------------------------------------ confirm (operator)
\* confirm_payment_handler / handle_admin_confirm_payment: look the handle up.
\* db.db.users.find_one is called directly, so a store fault is an exception
\* that reaches the handler's error reply.
ConfirmFindUser(k, u, fault) ==
    /\ tasks' = [tasks EXCEPT ![k] =
         IF fault
         THEN [Begin(k, "confirm", u) EXCEPT !.pc = "done", !.reply = "error"]
         ELSE IF find_user_by_username(users, u) = {}
         THEN [Begin(k, "confirm", u) EXCEPT !.pc = "done", !.reply = "user_not_found"]
         ELSE [Begin(k, "confirm", u) EXCEPT !.pc = "get_active"]]
    /\ UNCHANGED <<tournaments, users, payments, session, now, ret, conv0, sched, FlowVars>>

StartConfirm(k, u, fault) ==
    /\ ops < MaxOps
    /\ ops' = ops + 1
    /\ Idle(k)
    /\ ConfirmFindUser(k, u, fault)
    /\ UNCHANGED plan

\* get_active_tournaments() (an empty list on a store fault) and the loop that
\* picks the user's tournament.
ConfirmGetActive(k, fault) ==
    /\ tasks[k].kind = "confirm" /\ tasks[k].pc = "get_active"
    /\ LET found == IF fault THEN 0 ELSE UserTournament(tournaments, tasks[k].user)
       IN tasks' = [tasks EXCEPT ![k] =
            IF found = 0
            THEN [@ EXCEPT !.pc = "done", !.reply = "no_registration"]
            ELSE [@ EXCEPT !.pc = "confirm_player", !.tid = found]]
    /\ UNCHANGED <<tournaments, users, payments, session, ops>>
    /\ HandlerFrame

ConfirmPlayer(k, fault) ==
    /\ tasks[k].kind = "confirm" /\ tasks[k].pc = "confirm_player"
    /\ LET after == confirm_player(tournaments, tasks[k].tid, tasks[k].user)
       IN /\ tournaments' = IF fault THEN tournaments ELSE after
          /\ tasks' = [tasks EXCEPT ![k].pc = "confirm_payment",
                                    ![k].r1 = WriteResult(tournaments, after, fault)]
    /\ UNCHANGED <<users, payments, session, ops>>
    /\ HandlerFrame

\* The reply the confirm handlers send once both writes have been awaited:
\* neither return value is looked at.
ConfirmReply(r1, r2) == "success"

ConfirmPayment(k, fault) ==
    /\ tasks[k].kind = "confirm" /\ tasks[k].pc = "confirm_payment"
    /\ LET after == confirm_payment(payments, tasks[k].user, tasks[k].tid, now)
           r2 == WriteResult(payments, after, fault)
       IN /\ payments' = IF fault THEN payments ELSE after
          /\ tasks' = [tasks EXCEPT ![k].pc = "done", ![k].r2 = r2,
                                    ![k].reply = ConfirmReply(tasks[k].r1, r2)]
    /\ UNCHANGED <<tournaments, users, session, ops>>
    /\ HandlerFrame

\* ------------------------------------------------------ decline (operator)
DeclineFindUser(k, u, fault) ==
    /\ tasks' = [tasks EXCEPT ![k] =
         IF fault
         THEN [Begin(k, "decline", u) EXCEPT !.pc = "done", !.reply = "error"]
         ELSE IF find_user_by_username(users, u) = {}
         THEN [Begin(k, "decline", u) EXCEPT !.pc = "done", !.reply = "user_not_found"]
         ELSE [Begin(k, "decline", u) EXCEPT !.pc = "get_active"]]
    /\ UNCHANGED <<tournaments, users, payments, session, now, ret, conv0, sched, FlowVars>>

StartDecline(k, u, fault) ==
    /\ ops < MaxOps
    /\ ops' = ops + 1
    /\ Idle(k)
    /\ DeclineFindUser(k, u, fault)
    /\ UNCHANGED plan

\* What the decline handlers do to the tournaments once the user's tournament
\* is found: db.remove_participant is not a method of Database, so the call
\* raises AttributeError before anything is written.
DeclineWrite(T, tid, u) == T

\* get_active_tournaments(), the loop, and the call that raises in it.
DeclineGetActive(k, fault) ==
    /\ tasks[k].kind = "decline" /\ tasks[k].pc = "get_active"
    /\ LET found == IF fault THEN 0 ELSE UserTournament(tournaments, tasks[k].user)
       IN /\ tasks' = [tasks EXCEPT ![k] =
               IF found = 0
               THEN [@ EXCEPT !.pc = "done", !.reply = "no_registration"]
               ELSE [@ EXCEPT !.pc = "done", !.tid = found, !.reply = "error"]]
          /\ tournaments' = IF found = 0 THEN tournaments
                            ELSE DeclineWrite(tournaments, found, tasks[k].user)
    /\ UNCHANGED <<users, payments, session, ops>>
    /\ HandlerFrame

\* The handler has replied and returns.
Return(k) ==
    /\ tasks[k].pc = "done"
    /\ tasks' = [tasks EXCEPT ![k] = NoTask]
    /\ UNCHANGED <<tournaments, users, payments, session, ops>>
    /\ HandlerFrame

\* ------------------------------------------------------ winner declaration
\* declare_winners_handler: an entry point, taken only outside the flow.
DeclareWinners(fault) ==
    /\ ops < MaxOps
    /\ ops' = ops + 1
    /\ session.state = "END"
    /\ LET first == IF fault THEN 0 ELSE FirstActive(tournaments)
       IN session' = IF first = 0 THEN session
                     ELSE [state |-> "WINNER_INPUT", winner_tournament |-> first]
    /\ UNCHANGED <<tournaments, users, payments, tasks>>
    /\ HandlerFrame

\* winner_input: without a well-formed line the step is asked again; else the
\* announcement is sent and, if that worked, the tournament is closed.
WinnerInput(wellFormed, sent, fault) ==
    /\ ops < MaxOps
    /\ ops' = ops + 1
    /\ session.state = "WINNER_INPUT"
    /\ IF ~wellFormed
       THEN UNCHANGED <<tournaments, session>>
       ELSE /\ session' = NoSession
            /\ tournaments' = IF sent /\ ~fault
                              THEN close_tournament(tournaments, session.winner_tournament, now)
                              ELSE tournaments
    /\ UNCHANGED <<users, payments, tasks>>
    /\ HandlerFrame

\* cancel_tournament_creation, the fallback of every flow.
Cancel ==
    /\ ops < MaxOps
    /\ ops' = ops + 1
    /\ session.state # "END"
    /\ session' = NoSession
    /\ UNCHANGED <<tournaments, users, payments, tasks>>
    /\ HandlerFrame

Next ==
    \/ Tick
    \/ \E u \in UserIds, member \in BOOLEAN, fault \in BOOLEAN : StartHandler(u, member, fault)
    \/ \E fault \in BOOLEAN : CreateTournament(fault)
    \/ \E k \in TaskIds, u \in UserIds, tid \in TournamentIds : StartJoin(k, u, tid)
    \/ \E k \in TaskIds, fault \in BOOLEAN : JoinAdd(k, fault)
    \/ \E u \in UserIds, fault \in BOOLEAN : PaymentDone(u, fault)
    \/ \E k \in TaskIds, u \in UserIds, fault \in BOOLEAN : StartConfirm(k, u, fault)
    \/ \E k \in TaskIds, fault \in BOOLEAN : ConfirmGetActive(k, fault)
    \/ \E k \in TaskIds, fault \in BOOLEAN : ConfirmPlayer(k, fault)
    \/ \E k \in TaskIds, fault \in BOOLEAN : ConfirmPayment(k, fault)
    \/ \E k \in TaskIds, u \in UserIds, fault \in BOOLEAN : StartDecline(k, u, fault)
    \/ \E k \in TaskIds, fault \in BOOLEAN : DeclineGetActive(k, fault)
    \/ \E k \in TaskIds : Return(k)
    \/ \E fault \in BOOLEAN : DeclareWinners(fault)
    \/ \E wellFormed \in BOOLEAN, sent \in BOOLEAN, fault \in BOOLEAN :
           WinnerInput(wellFormed, sent, fault)
    \/ Cancel

Spec == Init /\ [][Next]_vars

\* ================================================================= SpecConv
\* A batch of join / confirm / decline invocations on tournament 1, fixed at
\* the start, every store step of which interleaves freely with the others.
\* It starts from a store the handlers can have produced: every user has sent
\* /start, tournament 1 exists, its arrays hold no duplicates and every
\* confirmed player is a participant.
ConvTid == 1

Ascending(s) == \A i \in DOMAIN s : \A j \in DOMAIN s : i < j => s[i] < s[j]

Arrays == {s \in UNION {[1..n -> UserIds] : n \in 0..NumUsers} : Ascending(s)}

ConvStores ==
    {[id \in {ConvTid} |->
        [status |-> st, participants |-> p, confirmed_players |-> c,
         completed_at |-> IF st = "completed" THEN 1 ELSE Unset]] :
      st \in {"active", "completed"},
      p \in Arrays,
      c \in Arrays}

Plans == [kind : {"join", "confirm", "decline"}, user : UserIds] \cup {NoPlan}

KindRank(kind) ==
    CASE kind = "none" -> 0 [] kind = "join" -> 1 [] kind = "confirm" -> 2 [] OTHER -> 3

PlanRank(p) == KindRank(p.kind) * (NumUsers + 1) + p.user

InitConv ==
    /\ now = 1
    /\ users = UserIds
    /\ payments = << >>
    /\ tasks = [k \in TaskIds |-> NoTask]
    /\ session = NoSession
    /\ ops = 0
    /\ ret = NoRet
    /\ InitFlowVars
    /\ tournaments \in
         {T \in ConvStores :
            Range(T[ConvTid].confirmed_players) \subseteq Range(T[ConvTid].participants)}
    /\ plan \in {pl \in [TaskIds -> Plans] :
                   \A j \in TaskIds : \A k \in TaskIds :
                       j < k => PlanRank(pl[j]) <= PlanRank(pl[k])}
    /\ conv0 = [tournaments |-> tournaments, plan |-> plan]
    /\ sched = NoSched

ConvStart(k, kind) ==
    /\ plan[k].kind = kind
    /\ tasks[k].kind = "idle"
    /\ plan' = [plan EXCEPT ![k] = NoPlan]
    /\ UNCHANGED ops

ConvStartJoin(k) == ConvStart(k, "join") /\ JoinRead(k, plan[k].user, ConvTid)

ConvStartConfirm(k) == ConvStart(k, "confirm") /\ ConfirmFindUser(k, plan[k].user, FALSE)

ConvStartDecline(k) == ConvStart(k, "decline") /\ DeclineFindUser(k, plan[k].user, FALSE)

NextConv ==
    \/ \E k \in TaskIds : ConvStartJoin(k)
    \/ \E k \in TaskIds : ConvStartConfirm(k)
    \/ \E k \in TaskIds : ConvStartDecline(k)
    \/ \E k \in TaskIds : JoinAdd(k, FALSE)
    \/ \E k \in TaskIds : ConfirmGetActive(k, FALSE)
    \/ \E k \in TaskIds : ConfirmPlayer(k, FALSE)
    \/ \E k \in TaskIds : ConfirmPayment(k, FALSE)
    \/ \E k \in TaskIds : DeclineGetActive(k, FALSE)

SpecConv == InitConv /\ [][NextConv]_vars

\* ------------------------------------- the batch run one handler at a time
\* Each handler of the batch run from its first store call to its reply with
\* nothing in between.
AtomicJoin(T, u) ==
    IF get_tournament(T, ConvTid) = {} \/ u \in Range(T[ConvTid].participants)
    THEN T
    ELSE JoinWrite(T, ConvTid, u, T[ConvTid].participants)

AtomicConfirm(T, u) ==
    IF find_user_by_username(UserIds, u) = {} \/ UserTournament(T, u) = 0
    THEN T
    ELSE confirm_player(T, UserTournament(T, u), u)

AtomicDecline(T, u) ==
    IF find_user_by_username(UserIds, u) = {} \/ UserTournament(T, u) = 0
    THEN T
    ELSE DeclineWrite(T, UserTournament(T, u), u)

AtomicRun(T, p) ==
    CASE p.kind = "join" -> AtomicJoin(T, p.user)
      [] p.kind = "confirm" -> AtomicConfirm(T, p.user)
      [] p.kind = "decline" -> AtomicDecline(T, p.user)
      [] OTHER -> T

RECURSIVE SeqRun(_, _, _)
SeqRun(T, pl, order) ==
    IF order = << >> THEN T
    ELSE SeqRun(AtomicRun(T, pl[Head(order)]), pl, Tail(order))

Orders == {o \in [TaskIds -> TaskIds] : \A j \in TaskIds : \A k \in TaskIds : j # k => o[j] # o[k]}

\* The two membership sets of every tournament, order and repetition dropped.
Membership(T) ==
    [id \in DOMAIN T |-> [participants |-> Range(T[id].participants),
                          confirmed_players |-> Range(T[id].confirmed_players)]]

ConvDone ==
    \A k \in TaskIds : plan[k].kind = "none" /\ tasks[k].pc \in {"idle", "done"}

DistinctUsers(pl) ==
    \A j \in TaskIds : \A k \in TaskIds :
        (j # k /\ pl[j].kind # "none" /\ pl[k].kind # "none") => pl[j].user # pl[k].user

\* ================================================================= SpecEarn
\* get_earnings over stores drawn from a bounded set.  Here the clock and
\* created_at are instants of a calendar window whose day 0 is Monday
\* 30 June 2025: TicksPerDay instants per day, the first of them midnight.
MIN_ENTRY_FEE == 10
MAX_ENTRY_FEE == 500

DayOf(t) == t \div TicksPerDay

\* datetime.weekday(): Monday is 0.
Weekday(day) == day % 7

\* datetime.day: day 0 is the 30th of June, days 1 to 31 are July.
DayOfMonth(day) == IF day = 0 THEN 30 ELSE day

\* replace(hour=0, minute=0, second=0, microsecond=0)
Midnight(t) == DayOf(t) * TicksPerDay

\* Mutant of StartDate: the week and the month are not cut back to midnight.
StartDateKeepsTime(period, t) ==
    CASE period = "today" -> Midnight(t)
      [] period = "thisweek" -> t - Weekday(DayOf(t)) * TicksPerDay
      [] period = "thismonth" -> t - (DayOfMonth(DayOf(t)) - 1) * TicksPerDay

\* start_date of get_earnings.
StartDate(period, t) ==
    CASE period = "today" -> Midnight(t)
      [] period = "thisweek" -> Midnight(t - Weekday(DayOf(t)) * TicksPerDay)
      [] period = "thismonth" -> Midnight(t - (DayOfMonth(DayOf(t)) - 1) * TicksPerDay)

Periods == {"today", "thisweek", "thismonth"}

ZeroEarnings == [total_earnings |-> 0, tournament_count |-> 0, player_count |-> 0]

\* find({"created_at": {"$gte": start_date}, "status": {"$in": [...]}}), in
\* store order.
RECURSIVE InOrder(_)
InOrder(S) == IF S = {} THEN << >> ELSE <<Min(S)>> \o InOrder(S \ {Min(S)})

EarningTournaments(T, start) ==
    InOrder({id \in DOMAIN T : /\ T[id].created_at >= start
                               /\ T[id].status \in {"active", "completed"}})

\* The loop of get_earnings over the tournaments found.
RECURSIVE EarningsLoop(_, _, _)
EarningsLoop(T, found, acc) ==
    IF found = << >> THEN acc
    ELSE LET confirmed_count == Len(T[Head(found)].confirmed_players)
             entry_fee == T[Head(found)].entry_fee
         IN EarningsLoop(T, Tail(found),
                [acc EXCEPT !.total_earnings = @ + confirmed_count * entry_fee,
                            !.player_count = @ + confirmed_count])

get_earnings(T, period, t) ==
    IF period \notin Periods THEN ZeroEarnings
    ELSE LET found == EarningTournaments(T, StartDate(period, t))
         IN EarningsLoop(T, found, [ZeroEarnings EXCEPT !.tournament_count = Len(found)])

\* The drawn clocks are the last instant of Monday 7 July and every instant of
\* Tuesday 8 July; the drawn creation times are the last instant of Monday
\* 30 June, the midnights of Tuesday 1 July and Monday 7 July, and the first
\* and last instant of Tuesday 8 July.
EarnClocks ==
    {8 * TicksPerDay - 1} \cup {8 * TicksPerDay + k : k \in 0..(TicksPerDay - 1)}

EarnCreated ==
    {TicksPerDay - 1, TicksPerDay, 7 * TicksPerDay, 8 * TicksPerDay, 9 * TicksPerDay - 1}

EarnRecords ==
    [status : {"active", "completed"},
     participants : {<<1, 2>>},
     confirmed_players : {<< >>, <<1, 2>>},
     completed_at : {Unset},
     created_at : EarnCreated,
     entry_fee : {MIN_ENTRY_FEE, MAX_ENTRY_FEE}]

\* Stores of up to MaxEarn tournaments, in insertion order: a later document
\* was not created before an earlier one.
EarnStores ==
    {T \in UNION {[1..n -> EarnRecords] : n \in 0..MaxEarn} :
        \A i \in DOMAIN T : \A j \in DOMAIN T :
            i < j => T[i].created_at <= T[j].created_at}

InitEarn ==
    /\ now \in EarnClocks
    /\ tournaments \in EarnStores
    /\ users = {}
    /\ payments = << >>
    /\ tasks = [k \in TaskIds |-> NoTask]
    /\ session = NoSession
    /\ ops = 0
    /\ ret = NoRet
    /\ plan = [k \in TaskIds |-> NoPlan]
    /\ InitFlowVars
    /\ conv0 = [tournaments |-> << >>, plan |-> plan]
    /\ sched = NoSched

CallEarnings(period, fault) ==
    /\ ret.op = "none"
    /\ ret' = [op |-> "get_earnings", tid |-> 0, ok |-> ~fault, period |-> period,
               result |-> IF fault THEN ZeroEarnings
                          ELSE get_earnings(tournaments, period, now)]
    /\ UNCHANGED <<now, tournaments, users, payments, tasks, session, ops, plan, conv0, sched, FlowVars>>

NextEarn == \E period \in Periods \cup {"alltime"}, fault \in BOOLEAN : CallEarnings(period, fault)

SpecEarn == InitEarn /\ [][NextEarn]_vars

\* ================================================================= SpecFlow
\* The operator's guided flows, each inbound update one step.  The three
\* ConversationHandlers (creation, room broadcast, winner declaration) keep
\* their own state and share context.user_data; an update goes to the first of
\* them, in registration order, that has a handler for it.
\* ------------------------------------------------------------- message texts
RECURSIVE LStrip(_)
LStrip(s) ==
    IF Len(s) > 0 /\ SubSeq(s, 1, 1) = " " THEN LStrip(SubSeq(s, 2, Len(s))) ELSE s

RECURSIVE RStrip(_)
RStrip(s) ==
    IF Len(s) > 0 /\ SubSeq(s, Len(s), Len(s)) = " "
    THEN RStrip(SubSeq(s, 1, Len(s) - 1)) ELSE s

\* str.strip()
Strip(s) == RStrip(LStrip(s))

UpperCase == "ABCDEFGHIJKLMNOPQRSTUVWXYZ"
LowerCase == "abcdefghijklmnopqrstuvwxyz"

LowerChar(c) ==
    IF \E i \in 1..Len(UpperCase) : SubSeq(UpperCase, i, i) = c
    THEN LET i == CHOOSE j \in 1..Len(UpperCase) : SubSeq(UpperCase, j, j) = c
         IN SubSeq(LowerCase, i, i)
    ELSE c

\* str.lower()
RECURSIVE Lower(_)
Lower(s) == IF Len(s) = 0 THEN "" ELSE LowerChar(SubSeq(s, 1, 1)) \o Lower(SubSeq(s, 2, Len(s)))

Digits == "0123456789"

IsDigit(c) == \E i \in 1..Len(Digits) : SubSeq(Digits, i, i) = c

DigitValue(c) == (CHOOSE i \in 1..Len(Digits) : SubSeq(Digits, i, i) = c) - 1

AllDigits(s) == Len(s) > 0 /\ \A i \in 1..Len(s) : IsDigit(SubSeq(s, i, i))

RECURSIVE DigitsValue(_)
DigitsValue(s) ==
    IF Len(s) = 0 THEN 0
    ELSE DigitsValue(SubSeq(s, 1, Len(s) - 1)) * 10 + DigitValue(SubSeq(s, Len(s), Len(s)))

\* int(text.strip()): an optional sign and decimal digits, else ValueError.
IsInt(text) ==
    LET t == Strip(text)
    IN IF Len(t) > 0 /\ SubSeq(t, 1, 1) \in {"-", "+"}
       THEN AllDigits(SubSeq(t, 2, Len(t)))
       ELSE AllDigits(t)

IntValue(text) ==
    LET t == Strip(text)
    IN IF SubSeq(t, 1, 1) = "-" THEN 0 - DigitsValue(SubSeq(t, 2, Len(t)))
       ELSE IF SubSeq(t, 1, 1) = "+" THEN DigitsValue(SubSeq(t, 2, Len(t)))
       ELSE DigitsValue(t)

\* The positions of a separator character in a text.
Positions(s, c) == {i \in 1..Len(s) : SubSeq(s, i, i) = c}

IsLeap(y) == (y % 4 = 0 /\ y % 100 # 0) \/ y % 400 = 0

DaysInMonth(m, y) ==
    IF m = 2 THEN (IF IsLeap(y) THEN 29 ELSE 28)
    ELSE IF m \in {4, 6, 9, 11} THEN 30 ELSE 31

\* datetime.strptime(date_text, "%d/%m/%Y"): one or two digits, "/", one or two
\* digits, "/", four digits, naming a day of the calendar; else ValueError.
DateParts(s) ==
    LET p == Positions(s, "/")
        a == Min(p)
        b == CHOOSE x \in p : x # a
    IN [d |-> SubSeq(s, 1, a - 1), m |-> SubSeq(s, a + 1, b - 1), y |-> SubSeq(s, b + 1, Len(s))]

IsDate(s) ==
    /\ Cardinality(Positions(s, "/")) = 2
    /\ LET p == DateParts(s)
       IN /\ AllDigits(p.d) /\ Len(p.d) <= 2
          /\ AllDigits(p.m) /\ Len(p.m) <= 2
          /\ AllDigits(p.y) /\ Len(p.y) = 4
          /\ DigitsValue(p.y) >= 1
          /\ DigitsValue(p.m) \in 1..12
          /\ DigitsValue(p.d) \in 1..DaysInMonth(DigitsValue(p.m), DigitsValue(p.y))

DateValue(s) ==
    LET p == DateParts(s)
    IN [y |-> DigitsValue(p.y), m |-> DigitsValue(p.m), d |-> DigitsValue(p.d)]

\* Mutant of DateBefore: today counts as past.
DateBeforeOrOn(a, b) ==
    \/ a.y < b.y
    \/ a.y = b.y /\ a.m < b.m
    \/ a.y = b.y /\ a.m = b.m /\ a.d <= b.d

\* date < date
DateBefore(a, b) ==
    \/ a.y < b.y
    \/ a.y = b.y /\ a.m < b.m
    \/ a.y = b.y /\ a.m = b.m /\ a.d < b.d

\* datetime.now().date(), on the calendar of DayOf: day 0 is 30 June 2025.
Today(t) ==
    IF DayOf(t) = 0 THEN [y |-> 2025, m |-> 6, d |-> 30]
    ELSE [y |-> 2025, m |-> 7, d |-> DayOfMonth(DayOf(t))]

\* datetime.strptime(time_text, "%H:%M")
IsTime(s) ==
    /\ Cardinality(Positions(s, ":")) = 1
    /\ LET c == Min(Positions(s, ":"))
           h == SubSeq(s, 1, c - 1)
           m == SubSeq(s, c + 1, Len(s))
       IN /\ AllDigits(h) /\ Len(h) <= 2 /\ DigitsValue(h) <= 23
          /\ AllDigits(m) /\ Len(m) <= 2 /\ DigitsValue(m) <= 59

\* ------------------------------------------------ what the operator may type
NameTexts == {"Cup", "  Cup  ", " Friday Night Cup "}
DateTexts == {"07/07/2025", "08/07/2025", "01/08/2025", "31/12/2024", "31/09/2025", "tomorrow"}
TimeTexts == {"20:00", "24:00", "20:60", "8pm"}
FeeTexts == {"9", "10", " 500 ", "501", "fifty"}
PrizeTexts == {"0", "-5", "500", "lots"}
MapTexts == {"Erangel"}
RoundsTexts == {"0", "1", "11", "five"}
DurationTexts == {"2", "30", "31", "eight"}
TeamSizeTexts == {"1", "2", "6", "four"}
MessageTexts == {"skip", " SKIP ", "Bonus prizes"}
WinnerTexts ==
    {" 1st  Ann 12 300 paid\n\n2nd Bob 8 150 ",
     "1st Ann 12 300\n2nd Bob 8",
     "Ann 12 300\nwell played",
     "1 a 9 90\n2 b 8 80\n3 c 7 70\n4 d 6 60"}

\* ------------------------------------------------------- context.user_data
Put(d, k, v) == (k :> v) @@ d

Get(d, k, default) == IF k \in DOMAIN d THEN d[k] ELSE default

\* channel, dms and ret hold what the handler of the latest update posted to
\* the channel, sent to the players and counted; a handler that does none of
\* these leaves none.
FlowFrame ==
    /\ channel' = NoPosts
    /\ dms' = NoBroadcast
    /\ ret' = NoRet
    /\ UNCHANGED <<now, tournaments, users, payments, tasks, session, ops, plan, conv0, sched>>

\* A step that asks again: the state is returned as it was.
Reprompt(r) ==
    /\ reply' = r
    /\ UNCHANGED <<user_data, conv>>

\* A step that records its value and returns the next state.
Advance(key, value, next, r) ==
    /\ user_data' = Put(user_data, key, value)
    /\ conv' = [conv EXCEPT !.creation = next]
    /\ reply' = r

\* ------------------------------------------------------------ creation flow
\* The three entry points, tried only while the creation conversation is not
\* in progress.
CreateEntry(type) ==
    /\ conv.creation = "END"
    /\ user_data' = Put(user_data, "tournament_type", type)
    /\ conv' = [conv EXCEPT !.creation = "TOURNAMENT_NAME"]
    /\ reply' = "ask_name"
    /\ FlowFrame

create_tournament_solo_handler == CreateEntry("Solo")

create_tournament_squad_handler == CreateEntry("Squad")

create_tournament_tdm_handler == CreateEntry("TDM")

tournament_name_input(text) ==
    /\ conv.creation = "TOURNAMENT_NAME"
    /\ LET tournament_name == Strip(text)
       IN IF Len(tournament_name) < 5
          THEN Reprompt("name_too_short")
          ELSE Advance("tournament_name", tournament_name, "TOURNAMENT_DATE", "ask_date")
    /\ FlowFrame

tournament_date_input(text) ==
    /\ conv.creation = "TOURNAMENT_DATE"
    /\ LET date_text == Strip(text)
       IN IF ~IsDate(date_text)
          THEN Reprompt("invalid_date")
          ELSE IF DateBefore(DateValue(date_text), Today(now))
          THEN Reprompt("date_in_past")
          ELSE Advance("tournament_date", date_text, "TOURNAMENT_TIME", "ask_time")
    /\ FlowFrame

tournament_time_input(text) ==
    /\ conv.creation = "TOURNAMENT_TIME"
    /\ LET time_text == Strip(text)
       IN IF ~IsTime(time_text)
          THEN Reprompt("invalid_time")
          ELSE Advance("tournament_time", time_text, "TOURNAMENT_ENTRY_FEE", "ask_entry_fee")
    /\ FlowFrame

\* Mutant of EntryFeeOutOfRange: only the minimum is enforced.
EntryFeeBelowMin(entry_fee) == entry_fee < MIN_ENTRY_FEE

EntryFeeOutOfRange(entry_fee) == entry_fee < MIN_ENTRY_FEE \/ entry_fee > MAX_ENTRY_FEE

tournament_entry_fee_input(text) ==
    /\ conv.creation = "TOURNAMENT_ENTRY_FEE"
    /\ IF ~IsInt(text)
       THEN Reprompt("invalid_amount")
       ELSE IF EntryFeeOutOfRange(IntValue(text))
       THEN Reprompt("entry_fee_out_of_range")
       ELSE Advance("tournament_entry_fee", IntValue(text), "TOURNAMENT_PRIZE_POOL",
                    "ask_prize_pool")
    /\ FlowFrame

\* Mutant of tournament_prize_pool_input: any amount that parses is taken.
PrizePoolUnchecked(text) ==
    /\ conv.creation = "TOURNAMENT_PRIZE_POOL"
    /\ IF ~IsInt(text)
       THEN Reprompt("invalid_amount")
       ELSE Advance("tournament_prize_pool", IntValue(text), "TOURNAMENT_MAP", "ask_map")
    /\ FlowFrame

tournament_prize_pool_input(text) ==
    /\ conv.creation = "TOURNAMENT_PRIZE_POOL"
    /\ IF ~IsInt(text)
       THEN Reprompt("invalid_amount")
       ELSE IF IntValue(text) <= 0
       THEN Reprompt("prize_pool_not_positive")
       ELSE Advance("tournament_prize_pool", IntValue(text), "TOURNAMENT_MAP", "ask_map")
    /\ FlowFrame

\* Mutant of AfterMap: every type goes on to the custom message.
AfterMapNoBranch(tournament_type) == "TOURNAMENT_CUSTOM_MESSAGE"

\* The branch of tournament_map_input on the tournament type.
AfterMap(tournament_type) ==
    IF tournament_type = "TDM" THEN "TDM_ROUNDS" ELSE "TOURNAMENT_CUSTOM_MESSAGE"

tournament_map_input(text) ==
    /\ conv.creation = "TOURNAMENT_MAP"
    /\ LET next == AfterMap(Get(user_data, "tournament_type", "None"))
       IN Advance("tournament_map", Strip(text), next,
                  IF next = "TDM_ROUNDS" THEN "ask_rounds" ELSE "ask_custom_message")
    /\ FlowFrame

tdm_rounds_input(text) ==
    /\ conv.creation = "TDM_ROUNDS"
    /\ IF ~IsInt(text)
       THEN Reprompt("invalid_number")
       ELSE IF IntValue(text) < 1 \/ IntValue(text) > 10
       THEN Reprompt("invalid_rounds")
       ELSE Advance("tdm_rounds", IntValue(text), "TDM_MATCH_DURATION", "ask_duration")
    /\ FlowFrame

tdm_match_duration_input(text) ==
    /\ conv.creation = "TDM_MATCH_DURATION"
    /\ IF ~IsInt(text)
       THEN Reprompt("invalid_number")
       ELSE IF IntValue(text) < 3 \/ IntValue(text) > 30
       THEN Reprompt("invalid_duration")
       ELSE Advance("tdm_match_duration", IntValue(text), "TDM_TEAM_SIZE", "ask_team_size")
    /\ FlowFrame

tdm_team_size_input(text) ==
    /\ conv.creation = "TDM_TEAM_SIZE"
    /\ IF ~IsInt(text)
       THEN Reprompt("invalid_number")
       ELSE IF IntValue(text) < 2 \/ IntValue(text) > 5
       THEN Reprompt("invalid_team_size")
       ELSE Advance("tdm_team_size", IntValue(text), "TOURNAMENT_CUSTOM_MESSAGE",
                    "ask_custom_message")
    /\ FlowFrame

\* The session keys tournament_custom_message_input reads by subscript.
RequiredKeys ==
    {"tournament_name", "tournament_type", "tournament_date", "tournament_time",
     "tournament_entry_fee", "tournament_prize_pool", "tournament_map"}

\* The dictionary handed to create_tournament: custom_message is always a key
\* of it, the TDM keys only for that type.
TournamentData(ud) ==
    LET fields == [name |-> ud["tournament_name"],
                   type |-> ud["tournament_type"],
                   date |-> ud["tournament_date"],
                   time |-> ud["tournament_time"],
                   entry_fee |-> ud["tournament_entry_fee"],
                   prize_pool |-> ud["tournament_prize_pool"],
                   map |-> ud["tournament_map"],
                   custom_message |-> Get(ud, "tournament_custom_message", "")]
        tdm == IF ud["tournament_type"] = "TDM"
               THEN [tdm_rounds |-> Get(ud, "tdm_rounds", 5),
                     tdm_match_duration |-> Get(ud, "tdm_match_duration", 8),
                     tdm_team_size |-> Get(ud, "tdm_team_size", 4)]
               ELSE EmptyDict
    IN tdm @@ fields @@ HandlerData

\* What the terminal step tells the operator.  The announcement and the
\* success reply share one try block, whose except branch sends the
\* partial-success reply; a reply that cannot be sent outside the try block
\* raises out of the handler.
TerminalOutcome(created, announced, replied, rescued) ==
    IF created
    THEN (IF announced /\ replied THEN "created"
          ELSE IF rescued THEN "announcement_failed"
          ELSE "raised")
    ELSE IF replied THEN "creation_failed" ELSE "raised"

\* tournament_custom_message_input: the terminal step.  A handler that raises
\* returns no state, so the conversation stays where it was and the lines
\* after the raise (user_data.clear()) do not run.
tournament_custom_message_input(text, fault, announced, replied, rescued) ==
    /\ conv.creation = "TOURNAMENT_CUSTOM_MESSAGE"
    /\ LET custom_message == Strip(text)
           ud == IF Lower(custom_message) # "skip"
                 THEN Put(user_data, "tournament_custom_message", custom_message)
                 ELSE user_data
       IN IF ~(RequiredKeys \subseteq DOMAIN ud)
          THEN /\ user_data' = ud
               /\ reply' = "none"
               /\ channel' = NoPosts
               /\ UNCHANGED <<tournaments, conv>>
          ELSE LET created == ~fault /\ CreateOk(tournaments, now)
                   outcome == TerminalOutcome(created, announced, replied, rescued)
               IN /\ tournaments' = IF fault THEN tournaments
                                     ELSE create_tournament(tournaments, TournamentData(ud), now)
                  /\ channel' = IF created /\ announced
                                THEN [NoPosts EXCEPT !.announcements = 1]
                                ELSE NoPosts
                  /\ IF outcome = "raised"
                     THEN /\ user_data' = ud
                          /\ reply' = "none"
                          /\ UNCHANGED conv
                     ELSE /\ user_data' = EmptyDict
                          /\ conv' = [conv EXCEPT !.creation = "END"]
                          /\ reply' = outcome
    /\ dms' = NoBroadcast
    /\ ret' = NoRet
    /\ UNCHANGED <<now, users, payments, tasks, session, ops, plan, conv0, sched>>

\* The conversation a /cancel reaches: the first in registration order that
\* is in progress.
Cancelled(c) ==
    IF c.creation # "END" THEN "creation"
    ELSE IF c.room # "END" THEN "room"
    ELSE IF c.winner # "END" THEN "winner"
    ELSE "none"

\* cancel_tournament_creation, the fallback of all three conversations.
cancel_tournament_creation ==
    /\ Cancelled(conv) # "none"
    /\ user_data' = EmptyDict
    /\ reply' = "cancelled"
    /\ conv' = [conv EXCEPT ![Cancelled(conv)] = "END"]
    /\ FlowFrame

\* ------------------------------------------------------------ room broadcast
\* The tournament document a flow keeps in user_data: the fields read later.
Snapshot(T, id) == [tournament_id |-> id, confirmed_players |-> T[id].confirmed_players]

\* send_room_handler, the entry point of the room conversation.
send_room_handler(fault) ==
    /\ conv.room = "END"
    /\ LET first == IF fault THEN 0 ELSE FirstActive(tournaments)
       IN IF first = 0
          THEN reply' = "no_active_tournaments" /\ UNCHANGED <<user_data, conv>>
          ELSE IF tournaments[first].confirmed_players = << >>
          THEN reply' = "no_confirmed_players" /\ UNCHANGED <<user_data, conv>>
          ELSE /\ reply' = "ask_room_id"
               /\ user_data' = Put(user_data, "room_tournament", Snapshot(tournaments, first))
               /\ conv' = [conv EXCEPT !.room = "ROOM_ID_INPUT"]
    /\ FlowFrame

\* A text goes to the room conversation only when the creation conversation,
\* registered before it, is not in progress.
room_id_input(text) ==
    /\ conv.creation = "END"
    /\ conv.room = "ROOM_ID_INPUT"
    /\ user_data' = Put(user_data, "room_id", Strip(text))
    /\ conv' = [conv EXCEPT !.room = "ROOM_PASSWORD_INPUT"]
    /\ reply' = "ask_room_password"
    /\ FlowFrame

\* Mutant of SendLoop: the first send that raises ends the loop.
RECURSIVE SendLoopAborts(_, _, _)
SendLoopAborts(players, failed, acc) ==
    IF players = << >> THEN acc
    ELSE IF Head(players) \in failed
    THEN [acc EXCEPT !.attempted = Append(@, Head(players))]
    ELSE SendLoopAborts(Tail(players), failed,
                        [acc EXCEPT !.attempted = Append(@, Head(players)),
                                    !.delivered = Append(@, Head(players)),
                                    !.success_count = @ + 1])

\* for user_id in confirmed_players: try: send_message; success_count += 1
\* except Exception: log.  The sends to the users in `failed` raise.
RECURSIVE SendLoop(_, _, _)
SendLoop(players, failed, acc) ==
    IF players = << >> THEN acc
    ELSE SendLoop(Tail(players), failed,
                  IF Head(players) \in failed
                  THEN [acc EXCEPT !.attempted = Append(@, Head(players))]
                  ELSE [acc EXCEPT !.attempted = Append(@, Head(players)),
                                   !.delivered = Append(@, Head(players)),
                                   !.success_count = @ + 1])

\* room_password_input: the send loop over the confirmed players of the kept
\* document, then the report "Sent to: success_count/len(confirmed_players)".
\* A missing session key raises KeyError out of the handler.
room_password_input(text, failed) ==
    /\ conv.creation = "END"
    /\ conv.room = "ROOM_PASSWORD_INPUT"
    /\ IF ~({"room_tournament", "room_id"} \subseteq DOMAIN user_data)
       THEN /\ reply' = "none"
            /\ dms' = NoBroadcast
            /\ UNCHANGED <<user_data, conv>>
       ELSE LET confirmed_players == user_data["room_tournament"].confirmed_players
            IN /\ dms' = [SendLoop(confirmed_players, failed, NoBroadcast)
                            EXCEPT !.total = Len(confirmed_players)]
               /\ reply' = "room_details_sent"
               /\ user_data' = EmptyDict
               /\ conv' = [conv EXCEPT !.room = "END"]
    /\ channel' = NoPosts
    /\ ret' = NoRet
    /\ UNCHANGED <<now, tournaments, users, payments, tasks, session, ops, plan, conv0, sched>>

\* -------------------------------------------------------- winner declaration
declare_winners_handler(fault) ==
    /\ conv.winner = "END"
    /\ LET first == IF fault THEN 0 ELSE FirstActive(tournaments)
       IN IF first = 0
          THEN reply' = "no_active_tournaments" /\ UNCHANGED <<user_data, conv>>
          ELSE /\ user_data' = Put(user_data, "winner_tournament", Snapshot(tournaments, first))
               /\ reply' = "ask_winners"
               /\ conv' = [conv EXCEPT !.winner = "WINNER_INPUT"]
    /\ FlowFrame

\* str.find: the first position of sep at or after i, 0 when there is none.
RECURSIVE Find(_, _, _)
Find(s, sep, i) ==
    IF i > Len(s) THEN 0
    ELSE IF SubSeq(s, i, i) = sep THEN i ELSE Find(s, sep, i + 1)

\* str.split(sep): the pieces between the occurrences of the separator.
RECURSIVE Split(_, _)
Split(s, sep) ==
    LET p == Find(s, sep, 1)
    IN IF p = 0 THEN <<s>>
       ELSE <<SubSeq(s, 1, p - 1)>> \o Split(SubSeq(s, p + 1, Len(s)), sep)

\* str.split(): the runs of characters between blanks.
Words(line) == SelectSeq(Split(line, " "), LAMBDA w : w # "")

\* Mutant of WinnerLine: a line with extra tokens is dropped.
WinnerLineExactlyFour(parts) == Len(parts) = 4

\* if len(parts) >= 4
WinnerLine(parts) == Len(parts) >= 4

\* The parse loop of winner_input: one winner per line of four tokens or more.
ParseWinners(text) ==
    LET lines == Split(Strip(text), "\n")
        split == [i \in 1..Len(lines) |-> Words(Strip(lines[i]))]
        kept  == SelectSeq(split, LAMBDA parts : WinnerLine(parts))
    IN [i \in 1..Len(kept) |->
          [position |-> kept[i][1], name |-> kept[i][2],
           kills |-> kept[i][3], prize |-> kept[i][4]]]

\* winners[:3], the winners Messages.winner_announcement writes out.
FirstThree(winners) == SubSeq(winners, 1, Min({3, Len(winners)}))

\* winner_input: reached only when neither conversation registered before it
\* is in progress.  The result of close_tournament is not looked at.
\* Mutant of TournamentClosed: the tournament is closed whether or not the
\* results were posted.
TournamentClosedAnyway(sent, fault) == ~fault

\* close_tournament is awaited inside the try block, after the post to the
\* channel: it runs, and takes effect, when the post went out and the store
\* did not fail.
TournamentClosed(sent, fault) == sent /\ ~fault

winner_input(text, sent, fault) ==
    /\ conv.creation = "END"
    /\ conv.room = "END"
    /\ conv.winner = "WINNER_INPUT"
    /\ IF "winner_tournament" \notin DOMAIN user_data
       THEN /\ reply' = "none"
            /\ channel' = NoPosts
            /\ UNCHANGED <<user_data, conv, tournaments>>
       ELSE LET winners == ParseWinners(text) IN
       IF winners = << >>
       THEN /\ reply' = "invalid_format"
            /\ channel' = NoPosts
            /\ UNCHANGED <<user_data, conv, tournaments>>
       ELSE /\ channel' = IF sent
                          THEN [NoPosts EXCEPT !.results = 1,
                                               !.winners = FirstThree(winners)]
                          ELSE NoPosts
            /\ tournaments' =
                 IF TournamentClosed(sent, fault)
                 THEN close_tournament(tournaments,
                                       user_data["winner_tournament"].tournament_id, now)
                 ELSE tournaments
            /\ reply' = IF sent THEN "winners_announced" ELSE "winners_not_announced"
            /\ user_data' = EmptyDict
            /\ conv' = [conv EXCEPT !.winner = "END"]
    /\ dms' = NoBroadcast
    /\ ret' = NoRet
    /\ UNCHANGED <<now, users, payments, tasks, session, ops, plan, conv0, sched>>

\* ------------------------------------------------------------ specification
\* The flows start on an empty store and run within one second of Tuesday
\* 8 July 2025, so a second creation meets the identifier of the first.
InitFlow ==
    /\ now = 8 * TicksPerDay
    /\ tournaments = EmptyDict
    /\ users = {}
    /\ payments = << >>
    /\ tasks = [k \in TaskIds |-> NoTask]
    /\ session = NoSession
    /\ ops = 0
    /\ ret = NoRet
    /\ plan = [k \in TaskIds |-> NoPlan]
    /\ conv0 = [tournaments |-> << >>, plan |-> plan]
    /\ sched = NoSched
    /\ user_data = EmptyDict
    /\ conv = NoConv
    /\ channel = NoPosts
    /\ dms = NoBroadcast
    /\ reply = "none"

NextFlow ==
    \/ create_tournament_solo_handler
    \/ create_tournament_squad_handler
    \/ create_tournament_tdm_handler
    \/ \E text \in NameTexts : tournament_name_input(text)
    \/ \E text \in DateTexts : tournament_date_input(text)
    \/ \E text \in TimeTexts : tournament_time_input(text)
    \/ \E text \in FeeTexts : tournament_entry_fee_input(text)
    \/ \E text \in PrizeTexts : tournament_prize_pool_input(text)
    \/ \E text \in MapTexts : tournament_map_input(text)
    \/ \E text \in RoundsTexts : tdm_rounds_input(text)
    \/ \E text \in DurationTexts : tdm_match_duration_input(text)
    \/ \E text \in TeamSizeTexts : tdm_team_size_input(text)
    \/ \E text \in MessageTexts, fault \in BOOLEAN, announced \in BOOLEAN,
          replied \in BOOLEAN, rescued \in BOOLEAN :
           tournament_custom_message_input(text, fault, announced, replied, rescued)
    \/ cancel_tournament_creation
    \/ \E fault \in BOOLEAN : declare_winners_handler(fault)
    \/ \E text \in WinnerTexts, sent \in BOOLEAN, fault \in BOOLEAN :
           winner_input(text, sent, fault)

SpecFlow == InitFlow /\ [][NextFlow]_vars

\* ================================================================== SpecOps
\* The operator's commands on a store that already holds tournaments: the
\* room broadcast, the winner declaration, /clear and /cancel.
\* ------------------------------------------------------------------- /clear
\* Mutant of ClearLoop: every tournament of the list is counted as deleted.
RECURSIVE ClearLoopCountsAll(_, _, _, _)
ClearLoopCountsAll(T, ids, failed, deleted_count) ==
    IF ids = {} THEN [tournaments |-> T, deleted_count |-> deleted_count]
    ELSE LET id == Min(ids)
         IN ClearLoopCountsAll(IF id \in failed THEN T ELSE delete_tournament(T, id),
                               ids \ {id}, failed, deleted_count + 1)

\* for tournament in active_tournaments:
\*     if await db.delete_tournament(tournament['tournament_id']): deleted_count += 1
\* The deletes of the ids in `failed` raise in the driver and return False.
RECURSIVE ClearLoop(_, _, _, _)
ClearLoop(T, ids, failed, deleted_count) ==
    IF ids = {} THEN [tournaments |-> T, deleted_count |-> deleted_count]
    ELSE LET id == Min(ids)
             after == IF id \in failed THEN T ELSE delete_tournament(T, id)
         IN ClearLoop(after, ids \ {id}, failed,
                      IF Modified(T, after) THEN deleted_count + 1 ELSE deleted_count)

\* clear_tournaments_handler: a plain command, taken in any conversation state.
clear_tournaments_handler(fault, failed) ==
    /\ LET active == IF fault THEN {} ELSE ActiveIds(tournaments)
           done == ClearLoop(tournaments, active, failed, 0)
       IN IF active = {}
          THEN /\ reply' = "no_active_to_clear"
               /\ ret' = NoRet
               /\ UNCHANGED tournaments
          ELSE /\ tournaments' = done.tournaments
               /\ reply' = "tournaments_cleared"
               /\ ret' = [op |-> "clear_tournaments", tid |-> 0, ok |-> TRUE,
                          deleted_count |-> done.deleted_count]
    /\ channel' = NoPosts
    /\ dms' = NoBroadcast
    /\ UNCHANGED <<now, users, payments, tasks, session, ops, plan, conv0, sched, user_data, conv>>

\* ------------------------------------------------------------ specification
\* The session of the flow that created the stored tournaments.
EarlierSession ==
    [tournament_type |-> "Solo", tournament_name |-> "Friday Night Cup",
     tournament_date |-> "08/07/2025", tournament_time |-> "20:00",
     tournament_entry_fee |-> MIN_ENTRY_FEE, tournament_prize_pool |-> 500,
     tournament_map |-> "Erangel"]

\* The first n players, in the order they were confirmed.
FirstPlayers(n) == [i \in 1..n |-> i]

\* A stored tournament: active or completed, its first players confirmed.
OpsRecords ==
    {[NewTournament(TournamentData(EarlierSession), 1)
        EXCEPT !.status = st,
               !.completed_at = IF st = "completed" THEN 1 ELSE Unset,
               !.participants = FirstPlayers(NumUsers),
               !.confirmed_players = FirstPlayers(n)] :
      st \in {"active", "completed"}, n \in 0..NumUsers}

\* The stores the commands start on: tournaments 1..n of earlier seconds.
OpsStores == UNION {[1..n -> OpsRecords] : n \in 0..MaxStored}

RoomTexts == {" 4321 "}

InitOps ==
    /\ now = 8 * TicksPerDay
    /\ tournaments \in OpsStores
    /\ users = UserIds
    /\ payments = << >>
    /\ tasks = [k \in TaskIds |-> NoTask]
    /\ session = NoSession
    /\ ops = 0
    /\ ret = NoRet
    /\ plan = [k \in TaskIds |-> NoPlan]
    /\ conv0 = [tournaments |-> << >>, plan |-> plan]
    /\ sched = NoSched
    /\ InitFlowVars

NextOps ==
    \/ \E fault \in BOOLEAN : send_room_handler(fault)
    \/ \E text \in RoomTexts : room_id_input(text)
    \/ \E text \in RoomTexts, failed \in SUBSET UserIds : room_password_input(text, failed)
    \/ \E fault \in BOOLEAN : declare_winners_handler(fault)
    \/ \E text \in WinnerTexts, sent \in BOOLEAN, fault \in BOOLEAN :
           winner_input(text, sent, fault)
    \/ \E fault \in BOOLEAN, failed \in SUBSET DOMAIN tournaments :
           clear_tournaments_handler(fault, failed)
    \/ cancel_tournament_creation

SpecOps == InitOps /\ [][NextOps]_vars

\* ================================================================ SpecSched
\* notification_scheduler (src/notifications.py): `while True`, the three
\* routines one after the other, then asyncio.sleep(60).  Every routine reads
\* the clock itself and wraps its whole body in try / except Exception, so
\* the except clause of the scheduler's own loop is never entered.

\* Config.NOTIFICATION_TIMES
NOTIFICATION_TIMES ==
    [morning |-> "08:00", afternoon |-> "14:00", evening |-> "18:00", night |-> "22:00"]

\* The clock readings of the polls: 18:00 is a notification minute in a
\* welcome hour, 19:30 and 19:45 are 30 and 15 minutes before the 20:00 start
\* of the stored tournaments.
PollDates == {"08/07/2025"}
PollTimes == {"18:00", "19:30", "19:45"}
PollClocks == [date : PollDates, time : PollTimes, second : {0}]

\* datetime.now().hour, from the "%H:%M" text of the reading.
Hour(time) == DigitsValue(SubSeq(time, 1, Min(Positions(time, ":")) - 1))

MinuteOfDay(time) ==
    LET c == Min(Positions(time, ":"))
    IN DigitsValue(SubSeq(time, 1, c - 1)) * 60 + DigitsValue(SubSeq(time, c + 1, Len(time)))

RECURSIVE DaysBeforeMonth(_, _)
DaysBeforeMonth(m, y) ==
    IF m = 1 THEN 0 ELSE DaysBeforeMonth(m - 1, y) + DaysInMonth(m - 1, y)

\* date.toordinal()
ToOrdinal(d) ==
    LET y == d.y - 1
    IN 365 * y + (y \div 4) - (y \div 100) + (y \div 400) + DaysBeforeMonth(d.m, d.y) + d.d

\* (tournament_datetime - current_time).total_seconds()
SecondsUntil(tournament, clock) ==
    (ToOrdinal(DateValue(tournament.date)) - ToOrdinal(DateValue(clock.date))) * 86400
    + (MinuteOfDay(tournament.time) - MinuteOfDay(clock.time)) * 60
    - clock.second

\* The if / elif chain over the four notification times.
TimePeriod(current_time) ==
    IF current_time = NOTIFICATION_TIMES.morning THEN "morning"
    ELSE IF current_time = NOTIFICATION_TIMES.afternoon THEN "afternoon"
    ELSE IF current_time = NOTIFICATION_TIMES.evening THEN "evening"
    ELSE IF current_time = NOTIFICATION_TIMES.night THEN "night"
    ELSE "None"

\* get_all_active_users(): the users active in the last 30 days (every user of
\* the model), in store order.
get_all_active_users(U) == InOrder(U)

\* Mutant of NotifyLoop: the first send that raises ends the loop.
RECURSIVE NotifyLoopAborts(_, _, _)
NotifyLoopAborts(recipients, failed, acc) ==
    IF recipients = << >> THEN acc
    ELSE IF Head(recipients) \in failed
    THEN [acc EXCEPT !.attempted = Append(@, Head(recipients))]
    ELSE NotifyLoopAborts(Tail(recipients), failed,
                          [acc EXCEPT !.attempted = Append(@, Head(recipients)),
                                      !.delivered = Append(@, Head(recipients)),
                                      !.success_count = @ + 1])

\* for user in active_users: try: send_message; success_count += 1
\* except Exception: log; continue.  The sends to the users in `failed` raise.
RECURSIVE NotifyLoop(_, _, _)
NotifyLoop(recipients, failed, acc) ==
    IF recipients = << >> THEN acc
    ELSE NotifyLoop(Tail(recipients), failed,
                    IF Head(recipients) \in failed
                    THEN [acc EXCEPT !.attempted = Append(@, Head(recipients))]
                    ELSE [acc EXCEPT !.attempted = Append(@, Head(recipients)),
                                     !.delivered = Append(@, Head(recipients)),
                                     !.success_count = @ + 1])

\* What a fan-out over the recipients leaves in dms.
FanOut(recipients, failed) ==
    [NotifyLoop(recipients, failed, NoBroadcast) EXCEPT !.total = Len(recipients)]

\* A fan-out in which some send raised.
SendFailed(recipients, failed) == Range(recipients) \cap failed # {}

\* What a routine leaves alone.
RoutineFrame ==
    /\ channel' = NoPosts
    /\ reply' = "none"
    /\ UNCHANGED <<now, users, payments, tasks, session, ops, ret, plan, conv0,
                   user_data, conv>>

\* How a routine's body can end: it runs through, a store read fails (the
\* Database method answers with an empty list), or an exception is raised in
\* the body and caught by the routine's own except clause.
Outcomes == {"ok", "fault", "raised"}

\* send_time_based_notifications.  The marker is written before the users are
\* read; the sends to the users in `failed` raise.
send_time_based_notifications(clock) ==
    /\ sched.pc = "time_based"
    /\ LET current_time == clock.time
       IN IF TimePeriod(current_time) = "None"
             \/ sched.last_notification_time = current_time
          THEN /\ sched' = [sched EXCEPT !.pc = "reminders", !.errors = FALSE]
               /\ dms' = NoBroadcast
          ELSE \E outcome \in Outcomes :
                 LET active_users == IF outcome = "fault" THEN << >>
                                     ELSE get_all_active_users(users)
                     recipients == IF outcome = "raised" THEN << >> ELSE active_users
                 IN \E failed \in SUBSET Range(recipients) :
                      /\ dms' = IF recipients # << >> THEN FanOut(recipients, failed)
                                ELSE NoBroadcast
                      /\ sched' = [sched EXCEPT
                                     !.pc = "reminders",
                                     !.last_notification_time = current_time,
                                     !.errors = \/ outcome = "raised"
                                                \/ SendFailed(recipients, failed)]
    /\ UNCHANGED tournaments
    /\ RoutineFrame

\* The active tournaments whose start lies in the window [lo, hi] seconds
\* after the reading, in store order.
Due(T, active, clock, lo, hi) ==
    SelectSeq(active, LAMBDA id :
        /\ IsDate(T[id].date) /\ IsTime(T[id].time)
        /\ SecondsUntil(T[id], clock) >= lo
        /\ SecondsUntil(T[id], clock) <= hi)

\* The confirmed players of the tournaments, one tournament after the other.
RECURSIVE Recipients(_, _)
Recipients(T, ids) ==
    IF ids = << >> THEN << >>
    ELSE T[Head(ids)].confirmed_players \o Recipients(T, Tail(ids))

\* Mutant of AfterReminders: a tournament whose reminder went out is closed.
AfterRemindersClosed(T, due) ==
    [id \in DOMAIN T |-> IF id \in Range(due) THEN [T[id] EXCEPT !.status = "completed"]
                         ELSE T[id]]

\* send_tournament_reminder and send_room_details_reminder read the document
\* they are given and write nothing back.
AfterReminders(T, due) == T

\* send_reminder_notifications: the 30-minute reminder or the 15-minute room
\* reminder to the confirmed players of every active tournament in its window.
send_reminder_notifications(clock) ==
    /\ sched.pc = "reminders"
    /\ LET stored == InOrder(ActiveIds(tournaments))
           in_window == Due(tournaments, stored, clock, 1800, 1860)
                        \o Due(tournaments, stored, clock, 900, 960)
       IN \E outcome \in Outcomes :
            LET due == IF outcome = "ok" THEN in_window ELSE << >>
                recipients == Recipients(tournaments, due)
            IN \E failed \in SUBSET Range(recipients) :
                 /\ dms' = IF recipients # << >> THEN FanOut(recipients, failed)
                           ELSE NoBroadcast
                 /\ sched' = [sched EXCEPT
                                !.pc = "welcome",
                                !.errors = \/ @
                                           \/ outcome = "raised"
                                           \/ SendFailed(recipients, failed)]
                 /\ tournaments' = AfterReminders(tournaments, due)
    /\ RoutineFrame

\* recent_users[:50]
WelcomeBatch(recent_users) == SubSeq(recent_users, 1, Min({50, Len(recent_users)}))

\* send_welcome_message_updates: in the hours 0, 6, 12 and 18, one message to
\* the users active in the last 24 hours (`recent`), at most 50 of them.
send_welcome_message_updates(clock, recent) ==
    /\ sched.pc = "welcome"
    /\ IF Hour(clock.time) \notin {6, 12, 18, 0}
       THEN /\ dms' = NoBroadcast
            /\ sched' = [sched EXCEPT !.pc = "sleep"]
       ELSE \E outcome \in Outcomes :
              LET active_users == IF outcome = "fault" THEN << >>
                                  ELSE get_all_active_users(users)
                  recent_users == SelectSeq(active_users, LAMBDA u : u \in recent)
                  batch == IF outcome = "raised" THEN << >> ELSE WelcomeBatch(recent_users)
              IN \E failed \in SUBSET Range(batch) :
                   /\ dms' = IF batch # << >> THEN FanOut(batch, failed) ELSE NoBroadcast
                   /\ sched' = [sched EXCEPT
                                  !.pc = "sleep",
                                  !.errors = \/ @
                                             \/ outcome = "raised"
                                             \/ SendFailed(batch, failed)]
    /\ UNCHANGED tournaments
    /\ RoutineFrame

\* await asyncio.sleep(60), then the next pass of `while True`.
poll_sleep ==
    /\ sched.pc = "sleep"
    /\ sched' = [sched EXCEPT !.pc = "time_based"]
    /\ dms' = NoBroadcast
    /\ UNCHANGED tournaments
    /\ RoutineFrame

\* One step of the scheduler task.
notification_scheduler ==
    \/ \E clock \in PollClocks : send_time_based_notifications(clock)
    \/ \E clock \in PollClocks : send_reminder_notifications(clock)
    \/ \E clock \in PollClocks, recent \in SUBSET UserIds :
           send_welcome_message_updates(clock, recent)
    \/ poll_sleep

\* The stores the scheduler polls: active tournaments with no or all players
\* confirmed, completed ones with all players confirmed.
SchedStores ==
    UNION {[1..n -> {r \in OpsRecords :
                       \/ Len(r.confirmed_players) = NumUsers
                       \/ r.confirmed_players = << >> /\ r.status = "active"}] :
             n \in 0..MaxStored}

InitSched ==
    /\ now = 8 * TicksPerDay
    /\ tournaments \in SchedStores
    /\ users = UserIds
    /\ payments = << >>
    /\ tasks = [k \in TaskIds |-> NoTask]
    /\ session = NoSession
    /\ ops = 0
    /\ ret = NoRet
    /\ plan = [k \in TaskIds |-> NoPlan]
    /\ conv0 = [tournaments |-> << >>, plan |-> plan]
    /\ sched = NoSched
    /\ InitFlowVars

\* The scheduler task runs beside the handling of the operator's commands.
SchedCommand ==
    /\ \E fault \in BOOLEAN, failed \in SUBSET DOMAIN tournaments :
           clear_tournaments_handler(fault, failed)

NextSched ==
    \/ notification_scheduler
    \/ SchedCommand

SpecSched == InitSched /\ [][NextSched]_vars

\* asyncio.sleep(60) returns: the event loop resumes the scheduler task once
\* the delay is over.
SpecSchedFair == SpecSched /\ WF_vars(poll_sleep)

\* ================================================================ SpecClock
\* The scheduler on a running clock.  A cycle reads the clock, runs the three
\* routines, sleeps 60 seconds; the next cycle starts 60 seconds plus the time
\* the cycle's own work took after this one (every send is awaited, and the
\* fan-outs sleep 0.1 or 0.2 seconds after each send).

\* The clock readings 00:00 .. 23:59:59 of a day are TicksPerMinute * 1440
\* ticks.
TicksPerDayClock == 1440 * TicksPerMinute

\* asyncio.sleep(60)
SleepTicks == TicksPerMinute

\* The scheduler starts at 18:00 of Tuesday 8 July 2025 and is followed for a
\* day and a minute.
ClockStart == 18 * 60 * TicksPerMinute
ClockEnd == ClockStart + TicksPerDayClock + TicksPerMinute

\* "%02d"
Pad2(n) ==
    SubSeq(Digits, (n \div 10) + 1, (n \div 10) + 1) \o SubSeq(Digits, (n % 10) + 1, (n % 10) + 1)

\* datetime.now() at tick t: strftime("%d/%m/%Y"), strftime("%H:%M"), and the
\* seconds into the minute.
Reading(t) ==
    LET minute == (t % TicksPerDayClock) \div TicksPerMinute
    IN [date |-> Pad2(8 + (t \div TicksPerDayClock)) \o "/07/2025",
        time |-> Pad2(minute \div 60) \o ":" \o Pad2(minute % 60),
        second |-> (t % TicksPerMinute) * (60 \div TicksPerMinute)]

\* The clock hour of a reading, with its date.
ClockHour(clock) == clock.date \o " " \o Pad2(Hour(clock.time))

\* The players' side after a cycle whose welcome routine delivered to
\* `delivered`.
Welcomed(seen, clock, delivered) ==
    IF delivered = << >> THEN seen
    ELSE [hour |-> ClockHour(clock),
          users |-> (IF seen.hour = ClockHour(clock) THEN seen.users ELSE {})
                    \cup Range(delivered)]

\* await asyncio.sleep(60) on the running clock: the next cycle starts when
\* the sleep and the `work` of this cycle are over.  In the state before the
\* sleep dms is what the welcome routine, the last of the cycle, sent.
clocked_sleep(work) ==
    /\ sched.pc = "sleep"
    /\ sched.clock + SleepTicks + work <= ClockEnd
    /\ sched' = [sched EXCEPT
                   !.pc = "time_based",
                   !.clock = @ + SleepTicks + work,
                   !.welcomed = Welcomed(@, Reading(sched.clock), dms.delivered)]
    /\ dms' = NoBroadcast
    /\ UNCHANGED tournaments
    /\ RoutineFrame

\* One step of the scheduler task on the running clock.
clocked_scheduler ==
    \/ send_time_based_notifications(Reading(sched.clock))
    \/ send_reminder_notifications(Reading(sched.clock))
    \/ \E recent \in SUBSET UserIds :
           send_welcome_message_updates(Reading(sched.clock), recent)
    \/ \E work \in 0..MaxWorkTicks : clocked_sleep(work)

\* One active tournament, starting at 20:00 of the first day, every player
\* confirmed in it.
ClockStores ==
    {T \in SchedStores : /\ DOMAIN T = {1}
                         /\ T[1].status = "active"
                         /\ T[1].confirmed_players # << >>}

InitClock ==
    /\ now = 8 * TicksPerDay
    /\ tournaments \in ClockStores
    /\ users = UserIds
    /\ payments = << >>
    /\ tasks = [k \in TaskIds |-> NoTask]
    /\ session = NoSession
    /\ ops = 0
    /\ ret = NoRet
    /\ plan = [k \in TaskIds |-> NoPlan]
    /\ conv0 = [tournaments |-> << >>, plan |-> plan]
    /\ sched = [NoSched EXCEPT !.clock = ClockStart]
    /\ InitFlowVars

SpecClock == InitClock /\ [][clocked_scheduler]_vars

\* ================================================================= SpecGate
\* Updates from any sender, the operator or a player, dispatched as
\* setup_handlers registers the handlers.  `conv` and `user_data` are the
\* operator's: ConversationHandler keeps a state per (chat, user) and only
\* for a user whose entry point returned one, and admin_only returns None.

\* Config.ADMIN_ID, an identity of its own.
ADMIN_ID == NumUsers + 1

\* The reply of admin_only to anybody else; the handler is not called.
Denied ==
    /\ reply' = "access_denied"
    /\ UNCHANGED <<user_data, conv>>
    /\ FlowFrame

\* An update no branch or handler takes: nothing is written, nobody answers.
Unhandled ==
    /\ reply' = "none"
    /\ UNCHANGED <<user_data, conv>>
    /\ FlowFrame

\* Mutant of admin_only: the handler runs for every sender.
AdminOnlyOff(who, handler) == handler

\* @admin_only
admin_only(who, handler) == IF who # ADMIN_ID THEN Denied ELSE handler

\* What a handler outside the guided flows leaves alone.
GateFrame ==
    /\ channel' = NoPosts
    /\ dms' = NoBroadcast
    /\ ret' = NoRet
    /\ UNCHANGED <<now, tasks, session, ops, plan, conv0, sched, user_data, conv>>

\* start_handler behind channel_required, which lets the operator through
\* unchecked: the sender's own user record is upserted.
start_handler(who, member, fault) ==
    /\ IF who = ADMIN_ID \/ member
       THEN /\ users' = IF fault THEN users ELSE add_user(users, who)
            /\ reply' = "welcome"
       ELSE /\ reply' = "membership_required"
            /\ UNCHANGED users
    /\ UNCHANGED <<tournaments, payments>>
    /\ GateFrame

\* handle_tournament_join, the whole handler.
handle_tournament_join(who, tid, fault) ==
    /\ IF fault \/ get_tournament(tournaments, tid) = {}
       THEN reply' = "not_found" /\ UNCHANGED tournaments
       ELSE IF who \in Range(tournaments[tid].participants)
       THEN reply' = "already_registered" /\ UNCHANGED tournaments
       ELSE /\ tournaments' = JoinWrite(tournaments, tid, who, tournaments[tid].participants)
            /\ reply' = "payment_instructions"
    /\ UNCHANGED <<users, payments>>
    /\ GateFrame

\* handle_payment_done, the whole handler.
handle_payment_done(who, fault) ==
    /\ Len(payments) < MaxPayments
    /\ payments' = IF fault THEN payments ELSE add_payment(payments, PaymentData(who))
    /\ reply' = "payment_pending"
    /\ UNCHANGED <<tournaments, users>>
    /\ GateFrame

\* confirm_payment_handler and handle_admin_confirm_payment, the whole
\* handler: the handle is looked up, then the user's active tournament, then
\* both writes are made and success is reported.
confirm_payment_handler(username, fault) ==
    /\ IF fault
       THEN reply' = "error" /\ UNCHANGED <<tournaments, payments>>
       ELSE IF find_user_by_username(users, username) = {}
       THEN reply' = "user_not_found" /\ UNCHANGED <<tournaments, payments>>
       ELSE LET found == UserTournament(tournaments, username)
            IN IF found = 0
               THEN reply' = "no_registration" /\ UNCHANGED <<tournaments, payments>>
               ELSE /\ tournaments' = confirm_player(tournaments, found, username)
                    /\ payments' = confirm_payment(payments, username, found, now)
                    /\ reply' = ConfirmReply(TRUE, TRUE)
    /\ UNCHANGED users
    /\ GateFrame

\* decline_payment_handler and handle_admin_decline_payment, the whole
\* handler: the call of the missing store method raises.
decline_payment_handler(username, fault) ==
    /\ IF fault
       THEN reply' = "error" /\ UNCHANGED tournaments
       ELSE IF find_user_by_username(users, username) = {}
       THEN reply' = "user_not_found" /\ UNCHANGED tournaments
       ELSE LET found == UserTournament(tournaments, username)
            IN IF found = 0
               THEN reply' = "no_registration" /\ UNCHANGED tournaments
               ELSE /\ tournaments' = DeclineWrite(tournaments, found, username)
                    /\ reply' = "error"
    /\ UNCHANGED <<users, payments>>
    /\ GateFrame

\* The branches of callback_query_handler that are taken for the operator
\* only: `elif data.startswith("admin_confirm_") and user_id == Config.ADMIN_ID`.
AdminButton(who, handler) == IF who = ADMIN_ID THEN handler ELSE Unhandled

\* An update of the sender: a command, a button, a text.  A text or /cancel
\* goes to the conversation of the sender, and only the operator has one.
GateUpdate(who) ==
    \/ \E member \in BOOLEAN, fault \in BOOLEAN : start_handler(who, member, fault)
    \/ admin_only(who, \E fault \in BOOLEAN, failed \in SUBSET DOMAIN tournaments :
                          clear_tournaments_handler(fault, failed))
    \/ admin_only(who, \E username \in UserIds, fault \in BOOLEAN :
                          confirm_payment_handler(username, fault))
    \/ admin_only(who, \E username \in UserIds, fault \in BOOLEAN :
                          decline_payment_handler(username, fault))
    \/ admin_only(who, create_tournament_solo_handler)
    \/ admin_only(who, \E fault \in BOOLEAN : declare_winners_handler(fault))
    \/ \E tid \in TournamentIds, fault \in BOOLEAN : handle_tournament_join(who, tid, fault)
    \/ /\ \A i \in DOMAIN payments : payments[i].user_id # who
       /\ \E fault \in BOOLEAN : handle_payment_done(who, fault)
    \/ AdminButton(who, \E username \in UserIds, fault \in BOOLEAN :
                           confirm_payment_handler(username, fault))
    \/ AdminButton(who, \E username \in UserIds, fault \in BOOLEAN :
                           decline_payment_handler(username, fault))
    \/ IF who = ADMIN_ID THEN cancel_tournament_creation ELSE Unhandled

\* What the operator sends: /clear, /confirm and the decline button.
OperatorUpdate ==
    \/ admin_only(ADMIN_ID, \E fault \in BOOLEAN, failed \in SUBSET DOMAIN tournaments :
                               clear_tournaments_handler(fault, failed))
    \/ admin_only(ADMIN_ID, \E username \in UserIds, fault \in BOOLEAN :
                               confirm_payment_handler(username, fault))
    \/ AdminButton(ADMIN_ID, \E username \in UserIds, fault \in BOOLEAN :
                                decline_payment_handler(username, fault))

\* The stores the updates arrive on: no tournament, or tournament 1, active or
\* completed, which nobody has joined yet.
GateStores ==
    {EmptyDict} \cup
    {[id \in {1} |-> [NewTournament(TournamentData(EarlierSession), 1)
                        EXCEPT !.status = st,
                               !.completed_at = IF st = "completed" THEN 1 ELSE Unset]] :
       st \in {"active", "completed"}}

InitGate ==
    /\ now = 8 * TicksPerDay
    /\ tournaments \in GateStores
    /\ users = {}
    /\ payments = << >>
    /\ tasks = [k \in TaskIds |-> NoTask]
    /\ session = NoSession
    /\ ops = 0
    /\ ret = NoRet
    /\ plan = [k \in TaskIds |-> NoPlan]
    /\ conv0 = [tournaments |-> << >>, plan |-> plan]
    /\ sched = NoSched
    /\ InitFlowVars

NextGate ==
    \/ \E who \in UserIds : GateUpdate(who)
    \/ OperatorUpdate

SpecGate == InitGate /\ [][NextGate]_vars

\* ============================================================== SpecConfirm
\* The operator confirming payments, by /confirm or by the button, on stores in
\* which every player has joined every tournament.
NextConfirm ==
    \E username \in UserIds, fault \in BOOLEAN : confirm_payment_handler(username, fault)

SpecConfirm == InitOps /\ [][NextConfirm]_vars

\* The operator goes on confirming every handle, and the store answers.
SpecConfirmFair ==
    SpecConfirm /\ \A username \in UserIds : WF_vars(confirm_payment_handler(username, FALSE))

\* =================================================================== claims

\* C1: in every state reached by interleaving the store steps of join,
\* confirm and decline handlers, every tournament's confirmed_players is a
\* subset of its participants.
C1_ConfirmedSubsetOfParticipants ==
    \A id \in DOMAIN tournaments :
        Range(tournaments[id].confirmed_players) \subseteq Range(tournaments[id].participants)

\* A confirm has added a user to confirmed_players while a decline of the same
\* user ran beside it.
C1_Witness ==
    \E j \in TaskIds : \E k \in TaskIds :
        /\ tasks[j].kind = "confirm" /\ tasks[j].pc = "done" /\ tasks[j].r1
        /\ tasks[k].kind = "decline" /\ tasks[k].pc = "done"
        /\ tasks[k].user = tasks[j].user
        /\ tasks[j].user \in Range(tournaments[ConvTid].confirmed_players)

\* C2: whenever no confirm or decline is in progress, a user's payment record
\* is Confirmed exactly when the user is in confirmed_players, and Declined
\* only when the user is in neither membership set.
NoAdminActionInProgress ==
    \A k \in TaskIds : tasks[k].kind \in {"confirm", "decline"} => tasks[k].pc = "done"

IsConfirmed(u) ==
    \E id \in DOMAIN tournaments : u \in Range(tournaments[id].confirmed_players)

IsRegistered(u) ==
    \E id \in DOMAIN tournaments :
        u \in Range(tournaments[id].participants) \cup Range(tournaments[id].confirmed_players)

C2_PaymentMirrorsMembership ==
    NoAdminActionInProgress =>
        \A i \in DOMAIN payments :
            /\ (payments[i].status = "confirmed") <=> IsConfirmed(payments[i].user_id)
            /\ (payments[i].status = "declined") => ~IsRegistered(payments[i].user_id)

\* C3: a tournament is created Active, its status changes only from Active to
\* Completed, and apart from that the record can only disappear.
C3_StatusOnlyMovesForward ==
    [][\A id \in TournamentIds :
         /\ (id \notin DOMAIN tournaments /\ id \in DOMAIN tournaments')
               => tournaments'[id].status = "active"
         /\ (id \in DOMAIN tournaments /\ id \in DOMAIN tournaments')
               => \/ tournaments'[id].status = tournaments[id].status
                  \/ /\ tournaments[id].status = "active"
                     /\ tournaments'[id].status = "completed"]_vars

\* close_tournament has just moved a tournament to Completed.
C3_Witness ==
    /\ ret.op = "close_tournament" /\ ret.ok
    /\ ret.tid \in DOMAIN tournaments
    /\ tournaments[ret.tid].status = "completed"
    /\ tournaments[ret.tid].completed_at = now

\* C4: close_tournament on a tournament that is already Completed, or that
\* does not exist, returns false and leaves the store as it was.
C4_CloseCompletedIsNoOp ==
    [][\A tid \in TournamentIds : \A fault \in BOOLEAN :
         (/\ CallClose(tid, fault)
          /\ \/ tid \notin DOMAIN tournaments
             \/ tournaments[tid].status = "completed")
         => (ret'.ok = FALSE /\ tournaments' = tournaments)]_vars

\* C5: a join of a tournament that is absent or not Active is answered with
\* not-found, and the participants of a tournament that is not Active never
\* change.
C5_JoinNeedsActiveTournament ==
    [][/\ \A k \in TaskIds : \A u \in UserIds : \A tid \in TournamentIds :
            (/\ StartJoin(k, u, tid)
             /\ \/ tid \notin DOMAIN tournaments
                \/ tournaments[tid].status # "active")
            => tasks'[k].reply = "not_found"
       /\ \A id \in DOMAIN tournaments :
            (tournaments[id].status # "active" /\ id \in DOMAIN tournaments')
            => tournaments'[id].participants = tournaments[id].participants]_vars

\* C6: however often, and however concurrently, a user joins a tournament, the
\* participants hold the user once, nobody else is lost, and no join ends in
\* an error.
C6_JoinIdempotent ==
    /\ \A id \in DOMAIN tournaments : \A u \in UserIds :
           Count(tournaments[id].participants, u) <= 1
    /\ Range(conv0.tournaments[ConvTid].participants)
           \subseteq Range(tournaments[ConvTid].participants)
    /\ \A k \in TaskIds :
           (tasks[k].kind = "join" /\ tasks[k].pc = "done")
           => /\ tasks[k].reply \in {"already_registered", "payment_instructions"}
              /\ Count(tournaments[tasks[k].tid].participants, tasks[k].user) = 1

\* Two joins of one user both passed the already-registered test and both
\* wrote.
C6_Witness ==
    \E j \in TaskIds : \E k \in TaskIds :
        /\ j # k
        /\ tasks[j].kind = "join" /\ tasks[k].kind = "join"
        /\ tasks[j].user = tasks[k].user
        /\ tasks[j].pc = "done" /\ tasks[k].pc = "done"
        /\ tasks[j].reply = "payment_instructions"
        /\ tasks[k].reply = "payment_instructions"
        /\ Count(tournaments[ConvTid].participants, tasks[j].user) = 1

\* C7: when a batch of join, confirm and decline handlers of distinct users on
\* one tournament has run to its end, the membership sets are those some
\* one-at-a-time order of the same handlers produces.
C7_InterleavingsConverge ==
    (ConvDone /\ DistinctUsers(conv0.plan))
    => Membership(tournaments) \in
          {Membership(SeqRun(conv0.tournaments, conv0.plan, o)) : o \in Orders}

\* A join and a confirm of different users have both written, interleaved.
C7_Witness ==
    /\ ConvDone /\ DistinctUsers(conv0.plan)
    /\ \E j \in TaskIds : \E k \in TaskIds :
          /\ tasks[j].kind = "join" /\ tasks[j].reply = "payment_instructions"
          /\ tasks[k].kind = "confirm" /\ tasks[k].r1
          /\ tasks[j].user \notin Range(conv0.tournaments[ConvTid].participants)
          /\ tasks[j].user \in Range(tournaments[ConvTid].participants)
          /\ tasks[k].user \in Range(tournaments[ConvTid].confirmed_players)

\* C8: a decline of a participant the operator has confirmed removes the user
\* from participants and from confirmed_players.
C8_DeclineAfterConfirmRemoves ==
    [][\A k \in TaskIds :
         (/\ DeclineGetActive(k, FALSE)
          /\ UserTournament(tournaments, tasks[k].user) # 0
          /\ tasks[k].user \in
               Range(tournaments[UserTournament(tournaments, tasks[k].user)].confirmed_players))
         => /\ tasks'[k].reply # "error"
            /\ \A id \in DOMAIN tournaments' :
                  /\ tasks[k].user \notin Range(tournaments'[id].participants)
                  /\ tasks[k].user \notin Range(tournaments'[id].confirmed_players)]_vars

\* C9: confirm is its own retry: when an earlier run has written the
\* membership but left the user's payment record Pending, the payment write of
\* a further run, the store answering, leaves a Confirmed record of that user.
HasPayment(P, u, status) ==
    \E i \in DOMAIN P : P[i].user_id = u /\ P[i].status = status

C9_ConfirmRetryCompletes ==
    [][\A k \in TaskIds :
         (/\ ConfirmPayment(k, FALSE)
          /\ ~tasks[k].r1
          /\ tasks[k].user \in Range(tournaments[tasks[k].tid].confirmed_players)
          /\ HasPayment(payments, tasks[k].user, "pending"))
         => HasPayment(payments', tasks[k].user, "confirmed")]_vars

\* C10: the operator is told a confirm succeeded only when both of its writes
\* took effect.
C10_SuccessOnlyIfBothWritten ==
    \A k \in TaskIds :
        (tasks[k].kind = "confirm" /\ tasks[k].pc = "done" /\ tasks[k].reply = "success")
        => (tasks[k].r1 /\ tasks[k].r2)

\* C11: a successful create_tournament followed by get_active_tournaments lists
\* the new tournament with status Active and both membership arrays empty,
\* whatever the caller passed for those three fields.
C11_CreatedIsListedActiveEmpty ==
    [][\A data \in CallerData :
         (CallCreate(data, FALSE) /\ ret'.ok)
         => /\ ret'.tid \in ActiveIds(tournaments')
            /\ tournaments'[ret'.tid].status = "active"
            /\ tournaments'[ret'.tid].participants = << >>
            /\ tournaments'[ret'.tid].confirmed_players = << >>]_vars

\* create_tournament has just stored a tournament that is listed as active.
C11_Witness ==
    /\ ret.op = "create_tournament" /\ ret.ok
    /\ ret.tid \in ActiveIds(tournaments)
    /\ tournaments[ret.tid].participants = << >>
    /\ tournaments[ret.tid].confirmed_players = << >>

\* C12: a successful create_tournament returns a non-empty identifier no
\* stored tournament had, and adds exactly that record; a create that fails,
\* as a second one within the same clock second does, returns the empty
\* identifier and stores nothing.
C12_FreshIdentifierOrNothing ==
    [][\A data \in CallerData : \A fault \in BOOLEAN :
         CallCreate(data, fault)
         => IF ret'.ok
            THEN /\ ret'.tid # 0
                 /\ ret'.tid \notin DOMAIN tournaments
                 /\ DOMAIN tournaments' = DOMAIN tournaments \cup {ret'.tid}
                 /\ \A id \in DOMAIN tournaments : tournaments'[id] = tournaments[id]
            ELSE /\ ret'.tid = 0
                 /\ tournaments' = tournaments]_vars

\* A create was refused in a second that already has a tournament, and a
\* create in another second succeeded beside it.
C12_Witness ==
    /\ ret.op = "create_tournament" /\ ~ret.ok /\ ret.tid = 0
    /\ now \in DOMAIN tournaments
    /\ Cardinality(DOMAIN tournaments) = 2

\* C13: for the periods today, thisweek and thismonth get_earnings returns, over
\* the stored tournaments created at or after the period's boundary (the last
\* midnight, the last Monday midnight, the last first-of-month midnight),
\* total_earnings = the sum of confirmed players x entry fee, tournament_count
\* = their number and player_count = the sum of their confirmed players.
IsBoundary(period, m) ==
    /\ m = Midnight(m)
    /\ period = "thisweek" => Weekday(DayOf(m)) = 0
    /\ period = "thismonth" => DayOfMonth(DayOf(m)) = 1

Boundary(period, t) ==
    CHOOSE m \in 0..t : IsBoundary(period, m) /\ \A n \in (m + 1)..t : ~IsBoundary(period, n)

Counted(period) == {id \in DOMAIN tournaments : tournaments[id].created_at >= Boundary(period, now)}

RECURSIVE SumOver(_, _)
SumOver(S, f) == IF S = {} THEN 0 ELSE LET x == CHOOSE y \in S : TRUE IN f[x] + SumOver(S \ {x}, f)

C13_EarningsAreTheSums ==
    (ret.op = "get_earnings" /\ ret.ok /\ ret.period \in Periods)
    => LET S == Counted(ret.period)
           players == [id \in S |-> Cardinality(Range(tournaments[id].confirmed_players))]
           money == [id \in S |-> players[id] * tournaments[id].entry_fee]
       IN /\ ret.result.tournament_count = Cardinality(S)
          /\ ret.result.player_count = SumOver(S, players)
          /\ ret.result.total_earnings = SumOver(S, money)

\* This week's earnings were computed on a Tuesday afternoon over a store that
\* holds a paying tournament of that morning and one from before the Monday.
C13_Witness ==
    /\ ret.op = "get_earnings" /\ ret.ok /\ ret.period = "thisweek"
    /\ now # Midnight(now) /\ Weekday(DayOf(now)) = 1
    /\ ret.result.tournament_count = 1
    /\ ret.result.total_earnings > 0
    /\ \E id \in DOMAIN tournaments :
          tournaments[id].created_at = Midnight(now) /\ tournaments[id].confirmed_players # << >>
    /\ \E id \in DOMAIN tournaments : tournaments[id].created_at < Boundary("thisweek", now)

\* The step the claimed order puts after a step, for a session of a type.
StepAfter(step, tournament_type) ==
    CASE step = "END" -> "TOURNAMENT_NAME"
      [] step = "TOURNAMENT_NAME" -> "TOURNAMENT_DATE"
      [] step = "TOURNAMENT_DATE" -> "TOURNAMENT_TIME"
      [] step = "TOURNAMENT_TIME" -> "TOURNAMENT_ENTRY_FEE"
      [] step = "TOURNAMENT_ENTRY_FEE" -> "TOURNAMENT_PRIZE_POOL"
      [] step = "TOURNAMENT_PRIZE_POOL" -> "TOURNAMENT_MAP"
      [] step = "TOURNAMENT_MAP" ->
             IF tournament_type = "TDM" THEN "TDM_ROUNDS" ELSE "TOURNAMENT_CUSTOM_MESSAGE"
      [] step = "TDM_ROUNDS" -> "TDM_MATCH_DURATION"
      [] step = "TDM_MATCH_DURATION" -> "TDM_TEAM_SIZE"
      [] step = "TDM_TEAM_SIZE" -> "TOURNAMENT_CUSTOM_MESSAGE"
      [] step = "TOURNAMENT_CUSTOM_MESSAGE" -> "END"

\* C14: the creation flow moves only from a step to the next step of the order
\* name, date, time, entry fee, prize pool, map, (for a session of type TDM:
\* rounds, round duration, team size,) custom message, or out of the flow; and
\* a tournament enters the store only in the update that answers the
\* custom-message step.
C14_StepsInFixedOrder ==
    [][/\ conv'.creation # conv.creation =>
            \/ conv'.creation = "END"
            \/ conv'.creation =
                 StepAfter(conv.creation, Get(user_data', "tournament_type", "None"))
       /\ DOMAIN tournaments' # DOMAIN tournaments =>
            conv.creation = "TOURNAMENT_CUSTOM_MESSAGE"]_vars

\* A TDM flow went through all its steps: the store holds a TDM tournament
\* with the three TDM answers.
C14_Witness ==
    \E id \in DOMAIN tournaments :
        /\ tournaments[id].type = "TDM"
        /\ tournaments[id].tdm_rounds = 1
        /\ tournaments[id].tdm_match_duration = 30
        /\ tournaments[id].tdm_team_size = 2


\* The drawn texts that pass each step's rule: a name of five characters or
\* more, a calendar date not before 8 July 2025, a 24-hour time, a fee within
\* [10, 500], a positive prize pool, rounds within [1, 10], a duration within
\* [3, 30], a team size within [2, 5].
ValidTexts ==
    [TOURNAMENT_NAME |-> {" Friday Night Cup "},
     TOURNAMENT_DATE |-> {"08/07/2025", "01/08/2025"},
     TOURNAMENT_TIME |-> {"20:00"},
     TOURNAMENT_ENTRY_FEE |-> {"10", " 500 "},
     TOURNAMENT_PRIZE_POOL |-> {"500"},
     TDM_ROUNDS |-> {"1"},
     TDM_MATCH_DURATION |-> {"30"},
     TDM_TEAM_SIZE |-> {"2"}]

\* What the claim allows a step to do with a text.
StepOutcome(step, text) ==
    IF text \in ValidTexts[step]
    THEN conv'.creation # step
    ELSE UNCHANGED <<conv, user_data, tournaments>>

\* C15: at every validated step of the creation flow an input that fails the
\* step's rule leaves the flow at that step and the session as it was, and an
\* input that passes it moves the flow on.
C15_InvalidInputStays ==
    [][/\ \A text \in NameTexts :
            tournament_name_input(text) => StepOutcome("TOURNAMENT_NAME", text)
       /\ \A text \in DateTexts :
            tournament_date_input(text) => StepOutcome("TOURNAMENT_DATE", text)
       /\ \A text \in TimeTexts :
            tournament_time_input(text) => StepOutcome("TOURNAMENT_TIME", text)
       /\ \A text \in FeeTexts :
            tournament_entry_fee_input(text) => StepOutcome("TOURNAMENT_ENTRY_FEE", text)
       /\ \A text \in PrizeTexts :
            tournament_prize_pool_input(text) => StepOutcome("TOURNAMENT_PRIZE_POOL", text)
       /\ \A text \in RoundsTexts :
            tdm_rounds_input(text) => StepOutcome("TDM_ROUNDS", text)
       /\ \A text \in DurationTexts :
            tdm_match_duration_input(text) => StepOutcome("TDM_MATCH_DURATION", text)
       /\ \A text \in TeamSizeTexts :
            tdm_team_size_input(text) => StepOutcome("TDM_TEAM_SIZE", text)]_vars

\* An entry fee above the maximum was just turned down, with the earlier
\* answers of the flow in the session.
C15_Witness ==
    /\ conv.creation = "TOURNAMENT_ENTRY_FEE"
    /\ reply = "entry_fee_out_of_range"
    /\ {"tournament_name", "tournament_date", "tournament_time"} \subseteq DOMAIN user_data
    /\ "tournament_entry_fee" \notin DOMAIN user_data


\* The drawn well-formed dates, as days after the current date, 8 July 2025.
DaysAfterToday ==
    [text \in {"31/12/2024", "07/07/2025", "08/07/2025", "01/08/2025"} |->
        CASE text = "31/12/2024" -> 0 - 189
          [] text = "07/07/2025" -> 0 - 1
          [] text = "08/07/2025" -> 0
          [] text = "01/08/2025" -> 24]

\* C16: the date step takes a well-formed date exactly when it is the current
\* date or a later one: yesterday and earlier dates leave the flow on the date
\* step, today and future dates are recorded and move it to the time step.
C16_DateTodayOrLater ==
    [][\A text \in DOMAIN DaysAfterToday :
          tournament_date_input(text) =>
             IF DaysAfterToday[text] >= 0
             THEN /\ conv'.creation = "TOURNAMENT_TIME"
                  /\ user_data'["tournament_date"] = text
             ELSE /\ conv'.creation = "TOURNAMENT_DATE"
                  /\ user_data' = user_data]_vars

\* Today's date was taken: the flow is at the time step with it.
C16_Witness ==
    /\ conv.creation = "TOURNAMENT_TIME"
    /\ "tournament_date" \in DOMAIN user_data
    /\ user_data["tournament_date"] = "08/07/2025"
    /\ Today(now) = [y |-> 2025, m |-> 7, d |-> 8]

\* A Solo flow with every answer given is answered `text` at the
\* custom-message step and the store takes the write.
SoloFlowAnswered(text, announced, replied, rescued) ==
    /\ RequiredKeys \subseteq DOMAIN user_data
    /\ "tournament_custom_message" \notin DOMAIN user_data
    /\ user_data["tournament_type"] = "Solo"
    /\ now \notin DOMAIN tournaments
    /\ tournament_custom_message_input(text, FALSE, announced, replied, rescued)

\* Exactly one tournament was added, carrying the session's answers.
OneTournamentAdded ==
    /\ DOMAIN tournaments' = DOMAIN tournaments \cup {now}
    /\ \A id \in DOMAIN tournaments : tournaments'[id] = tournaments[id]
    /\ tournaments'[now].name = user_data["tournament_name"]
    /\ tournaments'[now].type = "Solo"
    /\ tournaments'[now].date = user_data["tournament_date"]
    /\ tournaments'[now].time = user_data["tournament_time"]
    /\ tournaments'[now].entry_fee = user_data["tournament_entry_fee"]
    /\ tournaments'[now].prize_pool = user_data["tournament_prize_pool"]
    /\ tournaments'[now].map = user_data["tournament_map"]

\* C17: a Solo flow with every answer given that is answered "skip",
\* in any letter case, at the custom-message step adds exactly one tournament
\* with the entered name, date, time, entry fee, prize pool and map, and the
\* record has no custom_message field.
C17_SkipStoresNoCustomMessage ==
    [][\A text \in {"skip", " SKIP "} :
       \A announced \in BOOLEAN, replied \in BOOLEAN, rescued \in BOOLEAN :
          SoloFlowAnswered(text, announced, replied, rescued)
          => /\ OneTournamentAdded
             /\ "custom_message" \notin DOMAIN tournaments'[now]]_vars


\* C18: when the terminal step of the creation flow reports an outcome, it is
\* full success exactly when the tournament was persisted and the announcement
\* was posted to the channel, partial success exactly when it was persisted
\* and the announcement was not posted, and total failure exactly when it was
\* not persisted.
C18_OutcomeMatchesStoreAndChannel ==
    [][\A text \in MessageTexts :
       \A fault \in BOOLEAN, announced \in BOOLEAN, replied \in BOOLEAN, rescued \in BOOLEAN :
          /\ tournament_custom_message_input(text, fault, announced, replied, rescued)
          /\ reply' # "none"
          => LET persisted == DOMAIN tournaments' # DOMAIN tournaments
                 posted == channel'.announcements = 1
             IN reply' = IF persisted /\ posted THEN "created"
                         ELSE IF persisted THEN "announcement_failed"
                         ELSE "creation_failed"]_vars


\* C19: once the terminal step of the creation flow has run, the session is
\* empty and the operator is out of the flow, whether creation succeeded,
\* succeeded without the announcement, failed, or the outcome message could
\* not be sent.
C19_TerminalStepDiscardsSession ==
    [][\A text \in MessageTexts :
       \A fault \in BOOLEAN, announced \in BOOLEAN, replied \in BOOLEAN, rescued \in BOOLEAN :
          /\ RequiredKeys \subseteq DOMAIN user_data
          /\ tournament_custom_message_input(text, fault, announced, replied, rescued)
          => /\ user_data' = EmptyDict
             /\ conv'.creation = "END"]_vars


\* C20: a cancel at any step of a guided flow ends the flow and empties the
\* session, so that the operator is in no flow afterwards, and does nothing
\* else: the store is as it was, nothing is posted to the channel and nothing
\* is sent to the players.
C20_CancelEndsFlowOnly ==
    [][cancel_tournament_creation =>
          /\ conv' = NoConv
          /\ user_data' = EmptyDict
          /\ tournaments' = tournaments
          /\ users' = users
          /\ payments' = payments
          /\ channel' = NoPosts
          /\ dms' = NoBroadcast]_vars


\* C27: delete_tournament, the store answering, removes the record of the
\* identifier whatever its status and returns true exactly when such a record
\* existed; on an identifier that has no record, as after a first delete, it
\* returns false and changes nothing; no other tournament is touched.
C27_DeleteRemovesAnyStatus ==
    [][\A tid \in TournamentIds :
         CallDelete(tid, FALSE)
         => /\ ret'.ok = (tid \in DOMAIN tournaments)
            /\ DOMAIN tournaments' = DOMAIN tournaments \ {tid}
            /\ \A id \in DOMAIN tournaments' : tournaments'[id] = tournaments[id]
            /\ tid \notin DOMAIN tournaments => tournaments' = tournaments]_vars

\* A delete has just removed a record while a completed tournament stays in
\* the store beside it.
C27_Witness ==
    /\ ret.op = "delete_tournament" /\ ret.ok
    /\ ret.tid \notin DOMAIN tournaments
    /\ \E id \in DOMAIN tournaments : tournaments[id].status = "completed"


Winner(position, name, kills, prize) ==
    [position |-> position, name |-> name, kills |-> kills, prize |-> prize]

\* The winners the claim expects of each drawn text: one per line of four or
\* more blank-separated tokens, made of the line's first four tokens.
ExpectedWinners ==
    [text \in WinnerTexts |->
       CASE text = " 1st  Ann 12 300 paid\n\n2nd Bob 8 150 " ->
              <<Winner("1st", "Ann", "12", "300"), Winner("2nd", "Bob", "8", "150")>>
         [] text = "1st Ann 12 300\n2nd Bob 8" -> <<Winner("1st", "Ann", "12", "300")>>
         [] text = "Ann 12 300\nwell played" -> << >>
         [] text = "1 a 9 90\n2 b 8 80\n3 c 7 70\n4 d 6 60" ->
              <<Winner("1", "a", "9", "90"), Winner("2", "b", "8", "80"),
                Winner("3", "c", "7", "70"), Winner("4", "d", "6", "60")>>]

\* C22: the winner step builds one winner per input line of four or more
\* blank-separated tokens, from the line's first four tokens, and none for
\* another line; the results it posts name them (the first three); when no
\* line qualifies the flow stays on the winner step, nothing is posted and the
\* store is unchanged.
C22_OneWinnerPerWellFormedLine ==
    [][\A text \in WinnerTexts : \A sent \in BOOLEAN, fault \in BOOLEAN :
          /\ "winner_tournament" \in DOMAIN user_data
          /\ reply' \in {"invalid_format", "winners_announced", "winners_not_announced"}
          /\ winner_input(text, sent, fault)
          => /\ IF ExpectedWinners[text] = << >>
                THEN /\ conv'.winner = "WINNER_INPUT"
                     /\ channel' = NoPosts
                     /\ tournaments' = tournaments
                     /\ user_data' = user_data
                ELSE /\ conv'.winner = "END"
                     /\ sent => /\ channel'.results = 1
                                /\ channel'.winners =
                                     SubSeq(ExpectedWinners[text], 1,
                                            Min({3, Len(ExpectedWinners[text])}))]_vars

\* Results were posted for a text with a five-token line, a blank line and a
\* four-token line: two winners.
C22_Witness ==
    /\ reply = "winners_announced"
    /\ channel.results = 1
    /\ channel.winners = <<Winner("1st", "Ann", "12", "300"), Winner("2nd", "Bob", "8", "150")>>


\* C23: whenever the winner step reports success (results posted, tournament
\* marked as completed), the tournament chosen when the flow started is in
\* the store with status completed and is not among the active tournaments,
\* whatever commands ran between the start of the flow and the winners.
C23_ReportedSuccessMeansCompleted ==
    [][\A text \in WinnerTexts : \A sent \in BOOLEAN, fault \in BOOLEAN :
          /\ "winner_tournament" \in DOMAIN user_data
          /\ reply' = "winners_announced"
          /\ winner_input(text, sent, fault)
          => LET tid == user_data["winner_tournament"].tournament_id
             IN /\ tid \in DOMAIN tournaments'
                /\ tournaments'[tid].status = "completed"
                /\ tid \notin ActiveIds(tournaments')]_vars


\* C24: every command, step input and button press is answered: after the
\* handling of an update the user has been sent a reply, the generic failure
\* message when an internal fault (a store failure, a missing session field,
\* a missing store operation) occurred.
C24_EveryUpdateAnswered ==
    [][reply' # "none"]_vars


\* C30: every interaction of a user (start, join, payment done) upserts the
\* user's record, so every user in the participants of some tournament has a
\* user record, and a confirm or decline by the handle of such a user is
\* never answered with user-not-found.
C30_ParticipantsHaveUserRecord ==
    /\ \A tid \in DOMAIN tournaments :
          Range(tournaments[tid].participants) \subseteq users
    /\ \A k \in TaskIds :
          /\ tasks[k].kind \in {"confirm", "decline"}
          /\ tasks[k].reply = "user_not_found"
          => \A tid \in DOMAIN tournaments :
                tasks[k].user \notin Range(tournaments[tid].participants)


\* C26: once the clear command has completed, no tournament that was active
\* when it started is left in the store (the store answering every delete),
\* every completed tournament is there as it was, nothing was added, and the
\* deleted count it reports is the number of records removed.
C26_ClearRemovesActiveOnly ==
    [][\A fault \in BOOLEAN : \A failed \in SUBSET DOMAIN tournaments :
          clear_tournaments_handler(fault, failed)
          => /\ DOMAIN tournaments' \subseteq DOMAIN tournaments
             /\ \A id \in DOMAIN tournaments \ ActiveIds(tournaments) :
                   id \in DOMAIN tournaments' /\ tournaments'[id] = tournaments[id]
             /\ (~fault /\ failed \cap ActiveIds(tournaments) = {})
                   => ActiveIds(tournaments) \cap DOMAIN tournaments' = {}
             /\ IF reply' = "tournaments_cleared"
                THEN ret'.deleted_count
                       = Cardinality(DOMAIN tournaments \ DOMAIN tournaments')
                ELSE /\ reply' = "no_active_to_clear"
                     /\ tournaments' = tournaments
                     /\ ~fault => ActiveIds(tournaments) = {}]_vars

\* A clear has removed the one active tournament and reported one deletion;
\* the completed tournament is still stored.
C26_Witness ==
    /\ reply = "tournaments_cleared"
    /\ ret.op = "clear_tournaments"
    /\ ret.deleted_count = 1
    /\ ActiveIds(tournaments) = {}
    /\ \E id \in DOMAIN tournaments : tournaments[id].status = "completed"


\* C28: the notification scheduler never stops: after every poll cycle,
\* whether or not a routine or a send failed in it, another poll cycle
\* starts; and in the fan-out of a cycle every recipient of the list is sent
\* to, whichever sends to earlier recipients failed.
C28_SchedulerKeepsPolling ==
    /\ (sched.pc = "sleep") ~> (sched.pc = "time_based")
    /\ [][/\ \A clock \in PollClocks :
               dms'.total > 0 /\ send_time_based_notifications(clock)
               => dms'.attempted = get_all_active_users(users)
          /\ \A clock \in PollClocks :
               dms'.total > 0 /\ send_reminder_notifications(clock)
               => \A id \in DOMAIN tournaments :
                     /\ tournaments[id].status = "active"
                     /\ SecondsUntil(tournaments[id], clock) \in (900..960) \cup (1800..1860)
                     => \A u \in Range(tournaments[id].confirmed_players) :
                           Count(dms'.attempted, u) >= 1
          /\ \A clock \in PollClocks : \A recent \in SUBSET UserIds :
               dms'.total > 0 /\ send_welcome_message_updates(clock, recent)
               => Range(dms'.attempted) = recent \cap users]_vars

\* The evening notification went to both users although the send to the first
\* raised, and the cycle goes on to the reminders.
C28_Witness ==
    /\ sched.pc = "reminders"
    /\ sched.last_notification_time = "18:00"
    /\ sched.errors
    /\ dms.attempted = <<1, 2>>
    /\ dms.delivered = <<2>>

\* C29: no step of the notification scheduler (a step in which its position
\* in the cycle moves) changes a tournament, payment or user record; the only
\* state it writes is that position and its last-notification marker, the
\* marker in the time-based routine only.
C29_SchedulerOnlyReadsStore ==
    [][sched'.pc # sched.pc
       => /\ tournaments' = tournaments
          /\ users' = users
          /\ payments' = payments
          /\ UNCHANGED <<user_data, conv, session, tasks>>
          /\ sched.pc # "time_based"
             => sched'.last_notification_time = sched.last_notification_time]_vars

\* The reminder routine has sent the 30-minute reminder to the confirmed
\* players of a stored active tournament, after the evening notification.
C29_Witness ==
    /\ sched.pc = "welcome"
    /\ sched.last_notification_time = "18:00"
    /\ dms.attempted = <<1, 2>>
    /\ \E id \in DOMAIN tournaments :
          /\ tournaments[id].status = "active"
          /\ tournaments[id].confirmed_players = <<1, 2>>


\* C25: no update of a sender other than the operator starts a guided flow,
\* creates, closes or deletes a tournament, or changes a confirmed_players
\* array or a payment's status; all such an update can change in the store is
\* the sender's own user record (upserted), the sender's own entry at the end
\* of one participants array, and one new pending payment of the sender.
\* (Every step either stays within these changes, or is no update of a player.)
C25_OnlyOperatorChangesTournaments ==
    [][\A who \in UserIds :
         \/ /\ UNCHANGED <<conv, user_data, session>>
            /\ DOMAIN tournaments' = DOMAIN tournaments
            /\ \A id \in DOMAIN tournaments :
                  \/ tournaments'[id] = tournaments[id]
                  \/ /\ who \notin Range(tournaments[id].participants)
                     /\ tournaments'[id] =
                          [tournaments[id] EXCEPT !.participants = Append(@, who)]
            /\ users' \in {users, users \cup {who}}
            /\ \/ payments' = payments
               \/ /\ Len(payments') = Len(payments) + 1
                  /\ SubSeq(payments', 1, Len(payments)) = payments
                  /\ payments'[Len(payments')].user_id = who
                  /\ payments'[Len(payments')].status = "pending"
         \/ ~GateUpdate(who)]_vars

\* A player's command was refused when both players had joined the active
\* tournament, one was confirmed by the operator and a payment is on record.
C25_Witness ==
    /\ reply = "access_denied"
    /\ users = {1, 2}
    /\ Len(payments) >= 1
    /\ \E id \in DOMAIN tournaments :
          /\ tournaments[id].status = "active"
          /\ tournaments[id].participants = <<1, 2>>
          /\ tournaments[id].confirmed_players = <<1>>


\* C31: every tournament the creation flow has stored has a name of at least
\* five characters, an entry fee within [MIN_ENTRY_FEE, MAX_ENTRY_FEE] and a
\* positive prize pool; a TDM tournament has its round count in 1..10, its
\* round duration in 3..30 and its team size in 2..5, and a Solo or Squad
\* tournament has none of the three TDM fields.
C31_StoredTournamentsAreValid ==
    \A id \in DOMAIN tournaments :
       LET t == tournaments[id]
           TdmKeys == {"tdm_rounds", "tdm_match_duration", "tdm_team_size"}
       IN /\ Len(t.name) >= 5
          /\ t.entry_fee >= MIN_ENTRY_FEE /\ t.entry_fee <= MAX_ENTRY_FEE
          /\ t.prize_pool > 0
          /\ IF t.type = "TDM"
             THEN /\ TdmKeys \subseteq DOMAIN t
                  /\ t.tdm_rounds \in 1..10
                  /\ t.tdm_match_duration \in 3..30
                  /\ t.tdm_team_size \in 2..5
             ELSE TdmKeys \cap DOMAIN t = {}

\* A TDM tournament was stored with the largest fee and the smallest round
\* count and team size the flow accepts.
C31_Witness ==
    \E id \in DOMAIN tournaments :
       /\ tournaments[id].type = "TDM"
       /\ tournaments[id].entry_fee = MAX_ENTRY_FEE
       /\ tournaments[id].tdm_rounds = 1
       /\ tournaments[id].tdm_team_size = 2


\* C32: the operator has at most one guided flow in progress, and a flow that
\* waits for its last input has every session field that step reads: the
\* seven creation fields, the room tournament and room id, the winner
\* tournament.
C32_OneFlowWithItsSession ==
    /\ Cardinality({f \in DOMAIN conv : conv[f] # "END"}) <= 1
    /\ conv.creation = "TOURNAMENT_CUSTOM_MESSAGE" => RequiredKeys \subseteq DOMAIN user_data
    /\ conv.room = "ROOM_PASSWORD_INPUT" => {"room_tournament", "room_id"} \subseteq DOMAIN user_data
    /\ conv.winner = "WINNER_INPUT" => "winner_tournament" \in DOMAIN user_data


\* C33: when the room password is entered, the room details go to the players
\* the store holds as confirmed_players of the tournament at that moment, and
\* to nobody when the tournament has been deleted since /sendroom.
C33_RoomGoesToCurrentlyConfirmed ==
    [][/\ reply' = "room_details_sent"
       /\ \E text \in RoomTexts, failed \in SUBSET UserIds : room_password_input(text, failed)
       => LET tid == user_data["room_tournament"].tournament_id
          IN dms'.attempted = IF tid \in DOMAIN tournaments
                              THEN tournaments[tid].confirmed_players
                              ELSE << >>]_vars


\* C34: a player who has joined an active tournament and is not confirmed in it
\* gets confirmed in it by the operator's confirm actions for the player's
\* handle, also when the player has joined another active tournament.
C34_ConfirmReachesEveryTournament ==
    \A id \in 1..MaxStored, u \in UserIds :
       (/\ id \in DOMAIN tournaments
        /\ tournaments[id].status = "active"
        /\ u \in Range(tournaments[id].participants)
        /\ u \notin Range(tournaments[id].confirmed_players))
       ~> (/\ id \in DOMAIN tournaments
           /\ u \in Range(tournaments[id].confirmed_players))


\* C35: no user has two pending payment records for one tournament, and every
\* payment record names a tournament its user has joined and carries that
\* tournament's entry fee as its amount.
C35_OnePendingPaymentPerRegistration ==
    /\ \A i, j \in DOMAIN payments :
          /\ i # j
          /\ payments[i].status = "pending" /\ payments[j].status = "pending"
          /\ payments[i].user_id = payments[j].user_id
          => payments[i].tournament_id # payments[j].tournament_id
    /\ \A i \in DOMAIN payments :
          /\ payments[i].tournament_id \in DOMAIN tournaments
          /\ payments[i].user_id \in Range(tournaments[payments[i].tournament_id].participants)
          /\ payments[i].amount = tournaments[payments[i].tournament_id].entry_fee


C37_SendRoomNeedsConfirmedPlayers ==
    [][\A fault \in BOOLEAN :
         send_room_handler(fault)
         => LET active == {id \in DOMAIN tournaments : tournaments[id].status = "active"}
                ready == /\ active # {}
                         /\ \E id \in active :
                               /\ \A other \in active : id <= other
                               /\ tournaments[id].confirmed_players # << >>
            IN IF ready /\ ~fault
               THEN /\ conv' = [conv EXCEPT !.room = "ROOM_ID_INPUT"]
                    /\ DOMAIN user_data' = DOMAIN user_data \cup {"room_tournament"}
                    /\ user_data'["room_tournament"].tournament_id \in active
                    /\ reply' = "ask_room_id"
               ELSE /\ UNCHANGED <<conv, user_data>>
                    /\ reply' \in {"no_active_tournaments", "no_confirmed_players"}]_vars

\* /sendroom was refused for the first active tournament, which has no
\* confirmed player, although a later active tournament has one.
C37_Witness ==
    /\ reply = "no_confirmed_players"
    /\ conv.room = "END"
    /\ "room_tournament" \notin DOMAIN user_data
    /\ \E id \in DOMAIN tournaments :
          /\ id # FirstActive(tournaments)
          /\ tournaments[id].status = "active"
          /\ tournaments[id].confirmed_players # << >>


\* C38: no two polls read the same minute of the same day, so that a
\* notification time is broadcast at most once a day, and at a poll that reads
\* a notification time the duplicate guard does not hold that time from an
\* earlier day.
C38_OncePerDayNeverSuppressed ==
    /\ [][sched'.clock # sched.clock
          => \/ Reading(sched'.clock).date # Reading(sched.clock).date
             \/ Reading(sched'.clock).time # Reading(sched.clock).time]_vars
    /\ [](/\ sched.pc = "time_based"
          /\ TimePeriod(Reading(sched.clock).time) # "None"
          => sched.last_notification_time # Reading(sched.clock).time)


\* Between two consecutive polls the window [lo, hi] seconds before the start
\* of the tournament is passed over: the earlier poll is before it, the later
\* one after it.
WindowMissed(tournament, before, after, lo, hi) ==
    /\ SecondsUntil(tournament, before) > hi
    /\ SecondsUntil(tournament, after) < lo

\* Two consecutive polls both fall in the window.
WindowHitTwice(tournament, before, after, lo, hi) ==
    /\ SecondsUntil(tournament, before) \in lo..hi
    /\ SecondsUntil(tournament, after) \in lo..hi

\* C39: from one poll to the next, no active tournament's 30-minute window
\* [1800, 1860] or 15-minute window [900, 960] is passed over, and none is
\* read by both polls.
C39_EachReminderWindowHitOnce ==
    [][sched'.clock # sched.clock
       => \A id \in ActiveIds(tournaments), window \in {<<1800, 1860>>, <<900, 960>>} :
            /\ ~WindowMissed(tournaments[id], Reading(sched.clock), Reading(sched'.clock),
                             window[1], window[2])
            /\ ~WindowHitTwice(tournaments[id], Reading(sched.clock), Reading(sched'.clock),
                               window[1], window[2])]_vars


\* C40: a user to whom the welcome routine of this cycle delivered an update
\* has not received one earlier in the same clock hour.
C40_OneWelcomePerUserAndHour ==
    sched.pc = "sleep"
    => \A u \in Range(dms.delivered) :
         ~(/\ sched.welcomed.hour = ClockHour(Reading(sched.clock))
           /\ u \in sched.welcomed.users)

====
